---- MODULE Spec2Model ----
(***************************************************************************)
(* Model of the instance manager's control core:                           *)
(*   - the Postgres lifecycle supervisor (PostgresLifecycle.Start),        *)
(*   - the replication slot reconciler (ReconcileReplicationSlots).        *)
(*   - the status probe (Instance.GetStatus),                              *)
(*   - the replica configurator (UpdateReplicaConfiguration,               *)
(*     migratePostgresAutoConfFile).                                       *)
(*   - the bootstrap, restore and join workflows (InitInfo.Bootstrap,      *)
(*     InitInfo.forceSuperuserPassword, JoinInfo.Join);                    *)
(*   - the configuration refresh (RefreshConfigurationFilesFromCluster,    *)
(*     RefreshPGHBA);                                                      *)
(*   - the role synchronizer (RoleSynchronizer.Start, synchronizeRoles).   *)
(* Each component has its own specification (LifecycleSpec, SlotSpec,      *)
(* ProbeSpec, ConfSpec, WorkflowSpec, RefreshSpec, RoleSpec); the          *)
(* variables of the other components stay at their initial value.          *)
(* LifecycleFairSpec and WorkflowFairSpec add the scheduling of a loop,    *)
(* ShutdownProbeSpec the status probe called during the shutdown stages of *)
(* the supervisor.                                                         *)
(***************************************************************************)
EXTENDS Integers, Sequences, FiniteSets, TLC

(***************************************************************************)
(* Bounds of the model.                                                    *)
(***************************************************************************)
\* commands the reconciliation loop sends on the command channel in one run
MaxCmds == 2
\* largest value of the stop / switchover delay budgets (seconds)
MaxDelay == 3
\* instances p-1 .. p-NumInstances that can be members of the cluster
NumInstances == 3
\* largest segment number and largest offset of an LSN
MaxLsn == 1
\* lines a configuration file can get from outside the configurator
MaxLines == 3
\* connection attempts of waitForConnectionAvailable before it gives up
MaxRetries == 2
\* queries in InitInfo.PostInitSQL
MaxPostInitSQL == 2
\* polls of waitUntilRecoveryFinishes that are counted
MaxPolls == 3

(***************************************************************************)
(* Lifecycle supervisor: state.                                            *)
(***************************************************************************)
VARIABLES
    pc,                 \* position of Start: "spawn", "select", "stage", "done"
    cycle,              \* number of postmaster processes spawned so far
    alive,              \* cycles whose postmaster process is still running
    postMasterErrChan,  \* channel returned by runPostgresAndWait (buffer 1)
    waiterErr,          \* what the waiter of the current cycle reported
    ctxDone,            \* ctx.Done() of the context passed to Start is closed
    signals,            \* signals channel (buffer 1)
    cmdChan,            \* instance command channel, oldest command first
    sent,               \* commands sent so far
    takenCmds,          \* commands received by Start's select, in order
    trigger,            \* select case taken last
    stages,             \* shutdown modes still to try, current one first
    modesTried,         \* shutdown modes attempted on the current postmaster
    timeout,            \* timeout handed to the shutdown function
    fullSequence,       \* the shutdown runs inside fullShutDownSequence
    restartNeeded,      \* first result of handleInstanceCommandRequests
    shutdownErr,        \* error of the last finished shutdown function
    queuedMidShutdown,  \* a command was sent while a shutdown stage ran
    result,             \* what Start returned, "running" before it returns
    lifecycleCancelled, \* i.cancel() has been called
    MaxStopDelay,       \* instance.MaxStopDelay
    MaxSwitchoverDelay  \* instance.MaxSwitchoverDelay

lifecycleVars ==
    <<pc, cycle, alive, postMasterErrChan, waiterErr, ctxDone, signals, cmdChan,
      sent, takenCmds, trigger, stages, modesTried, timeout, fullSequence,
      restartNeeded, shutdownErr, queuedMidShutdown, result, lifecycleCancelled,
      MaxStopDelay, MaxSwitchoverDelay>>

(***************************************************************************)
(* Replication slot reconciler: state.                                     *)
(***************************************************************************)
VARIABLES
    slots,           \* replication slots on the instance: {[SlotName, Active]}
    instanceNames,   \* cluster.Status.InstanceNames
    currentPrimary,  \* cluster.Status.CurrentPrimary
    targetPrimary,   \* cluster.Status.TargetPrimary
    haConfig,        \* cluster.Spec.ReplicationSlots(.HighAvailability(.Enabled))
    lastRun,         \* the calls and the result of the last reconciliation pass
    stable           \* nothing changed since a pass that reconciled with no error

slotVars ==
    <<slots, instanceNames, currentPrimary, targetPrimary, haConfig, lastRun, stable>>

(***************************************************************************)
(* Status probe: state.                                                    *)
(***************************************************************************)
VARIABLES
    PgRewindIsRunning,  \* instance.PgRewindIsRunning
    inRecovery,         \* pg_is_in_recovery() of the engine
    currentSetting,     \* current_setting(name) of the hot standby sensible settings
    fileSetting,        \* their last value in pg_file_settings
    controldata,        \* their value in the control data of PGDATA
    lastProbe           \* what the last GetStatus call read and returned

probeVars ==
    <<PgRewindIsRunning, inRecovery, currentSetting, fileSetting, controldata,
      lastProbe>>

(***************************************************************************)
(* Replica configurator: state.                                            *)
(***************************************************************************)
VARIABLES
    major,     \* the major version GetMajorVersion finds in PGDATA
    files,     \* the configuration files of PGDATA, by name
    lastCall   \* the inputs and the result of the last configurator call

confVars == <<major, files, lastCall>>

(***************************************************************************)
(* Bootstrap, restore and join workflows: state.                           *)
(***************************************************************************)
VARIABLES
    info,        \* the InitInfo / JoinInfo the workflow runs with
    step,        \* the call of the workflow that comes next
    engine,      \* the local engine process: "stopped" or "running"
    recovering,  \* pg_is_in_recovery() of the local engine
    parentUp,    \* the parent instance accepts connections
    attempts,    \* connection attempts waitForConnectionAvailable has made
    polls,       \* polls of waitUntilRecoveryFinishes answered "in recovery"
    trace,       \* the calls made so far, with their outcome
    wfErr,       \* the error the workflow is about to return ("nil": none)
    returned     \* the workflow has returned wfErr

workflowVars ==
    <<info, step, engine, recovering, parentUp, attempts, polls, trace, wfErr,
      returned>>

(***************************************************************************)
(* Configuration refresh: state.                                           *)
(***************************************************************************)
VARIABLES
    cluster,       \* what the refresh reads of the cluster object
    pgdata,        \* contents of the two files the refresh installs in PGDATA
    ConfigSha256,  \* instance.ConfigSha256
    lastRefresh    \* the last refresh call and what it returned

refreshVars == <<cluster, pgdata, ConfigSha256, lastRefresh>>

(***************************************************************************)
(* Role synchronizer: state.                                               *)
(***************************************************************************)
VARIABLES
    syncPc,            \* position of Start and of its goroutine
    isPrimaryAtStart,  \* what sr.instance.IsPrimary() answered in Start
    config,            \* the config variable of the goroutine
    tickerRunning,     \* the ticker of the loop has not been stopped
    syncCtxDone,       \* ctx.Done() of the context passed to Start is closed
    rolesInDB,         \* the roles in the database: {[Name, Attributes]}
    lastSync           \* the calls and the result of the last pass of the loop

roleVars ==
    <<syncPc, isPrimaryAtStart, config, tickerRunning, syncCtxDone, rolesInDB,
      lastSync>>

\* the variables of the components other than the named one
besidesLifecycle ==
    <<slotVars, probeVars, confVars, workflowVars, refreshVars, roleVars>>
besidesSlots ==
    <<lifecycleVars, probeVars, confVars, workflowVars, refreshVars, roleVars>>
besidesProbe ==
    <<lifecycleVars, slotVars, confVars, workflowVars, refreshVars, roleVars>>
besidesConf ==
    <<lifecycleVars, slotVars, probeVars, workflowVars, refreshVars, roleVars>>
besidesWorkflow ==
    <<lifecycleVars, slotVars, probeVars, confVars, refreshVars, roleVars>>
besidesRefresh ==
    <<lifecycleVars, slotVars, probeVars, confVars, workflowVars, roleVars>>
besidesRoles ==
    <<lifecycleVars, slotVars, probeVars, confVars, workflowVars, refreshVars>>

vars ==
    <<lifecycleVars, slotVars, probeVars, confVars, workflowVars, refreshVars,
      roleVars>>

\* postgres.InstanceCommand: the two declared commands, and any other value
RestartSmartFast == "RestartSmartFast"
ShutDownFastImmediate == "ShutDownFastImmediate"
InstanceCommand == {RestartSmartFast, ShutDownFastImmediate, "Unrecognized"}

\* errors streamingCmd.Wait() can report: nil, an *exec.ExitError, another error
WaitErrors == {"nil", "ExitError", "WaitError"}

Signals == {"SIGINT", "SIGTERM"}

LifecycleStart ==
    /\ pc = "spawn"
    /\ cycle = 0
    /\ alive = {}
    /\ postMasterErrChan = <<>>
    /\ waiterErr = "none"
    /\ ctxDone = FALSE
    /\ signals = <<>>
    /\ cmdChan = <<>>
    /\ sent = 0
    /\ takenCmds = <<>>
    /\ trigger = "none"
    /\ stages = <<>>
    /\ modesTried = <<>>
    /\ timeout = 0
    /\ fullSequence = FALSE
    /\ restartNeeded = FALSE
    /\ shutdownErr = "nil"
    /\ queuedMidShutdown = FALSE
    /\ result = "running"
    /\ lifecycleCancelled = FALSE

(***************************************************************************)
(* Replication slot reconciler: names and initial state.                   *)
(***************************************************************************)
Digits == <<"1", "2", "3", "4", "5", "6", "7", "8", "9">>

\* the instance (pod) name "p-<i>", as its characters
InstanceName(i) == <<"p", "-", Digits[i]>>

Pool == {InstanceName(i) : i \in 1..NumInstances}

\* GetSlotNameFromInstanceName: the slot prefix followed by the instance name
\* with every character that a slot name cannot hold replaced by "_"
GetSlotNameFromInstanceName(name) ==
    <<"_cnpg_">> \o [k \in DOMAIN name |-> IF name[k] = "-" THEN "_" ELSE name[k]]

\* the instances i of 1..n that are in the set S, in ascending order
RECURSIVE MembersInOrder(_, _)
MembersInOrder(S, n) ==
    IF n = 0 THEN <<>>
    ELSE IF InstanceName(n) \in S
         THEN Append(MembersInOrder(S, n - 1), InstanceName(n))
         ELSE MembersInOrder(S, n - 1)

\* a pass that has not been run (or whose inputs have changed since)
NoRun ==
    [called |-> FALSE, ran |-> FALSE, instance |-> <<>>, pre |-> {}, lists |-> 0,
     creates |-> <<>>, deletes |-> <<>>, err |-> "nil", afterStable |-> FALSE,
     failing |-> 0]

\* a fresh cluster: every instance is a member, p-1 is the primary, the slot
\* feature is enabled and no slot exists yet
SlotsStart ==
    /\ slots = {}
    /\ instanceNames = MembersInOrder(Pool, NumInstances)
    /\ currentPrimary = InstanceName(1)
    /\ targetPrimary = InstanceName(1)
    /\ haConfig = "Enabled"
    /\ lastRun = NoRun
    /\ stable = FALSE

(***************************************************************************)
(* Status probe: the engine facts it reads.                                *)
(***************************************************************************)
\* hot standby sensible settings of the query of GetDecreasedSensibleSettings;
\* the model keeps two of the five
SensibleSettings == {"max_connections", "max_wal_senders"}

\* the values a sensible setting takes in the model
SettingValues == {1, 2}

\* an LSN "segment/offset" as the pair of its two numbers; the empty LSN
NoLsn == <<>>
Lsns == (0..MaxLsn) \X (0..MaxLsn)

\* LSN.Less: the order of the positions in the write-ahead log
Less(lsn, other) ==
    \/ lsn[1] < other[1]
    \/ lsn[1] = other[1] /\ lsn[2] < other[2]

\* EXISTS(SELECT 1 FROM pg_settings WHERE pending_restart)
PendingRestartSetting == \E name \in SensibleSettings : fileSetting[name] # currentSetting[name]

\* the rows of the query of GetDecreasedSensibleSettings: the settings whose
\* value in the file is not applied and is lower than the current one
DecreasedRows == {name \in SensibleSettings : currentSetting[name] > fileSetting[name]}

\* the fallible operations of one GetStatus call, in the order of the code
ProbeQueries ==
    {"GetSuperUserDB", "StatusQuery", "DecreasedSettingsQuery", "PgControldata",
     "PrimaryQuery", "ReplicaQuery", "WalReceiverQuery", "ReplicationQuery",
     "ReplicationRows",
     "WALArchiveCounters", "ExecutableHash"}

\* postgres.PostgresqlStatus as GetStatus creates it
NewStatus ==
    [IsPgRewindRunning |-> FALSE, IsPrimary |-> FALSE, PendingRestart |-> FALSE,
     PendingRestartForDecrease |-> FALSE, ReceivedLsn |-> NoLsn, ReplayLsn |-> NoLsn,
     ReadyWALFiles |-> "unset", ExecutableHash |-> "unset"]

\* no GetStatus call has been made (or what it returned has been consumed)
NoProbe ==
    [called |-> FALSE, outcome |-> "none", err |-> "nil", failed |-> "none",
     snapshot |-> <<>>, received |-> NoLsn, replay |-> NoLsn]

\* a replica whose settings are applied and agree with the control data
ProbeStart ==
    /\ PgRewindIsRunning = FALSE
    /\ inRecovery = TRUE
    /\ currentSetting = [name \in SensibleSettings |-> 2]
    /\ fileSetting = [name \in SensibleSettings |-> 2]
    /\ controldata = [name \in SensibleSettings |-> 2]
    /\ lastProbe = NoProbe

(***************************************************************************)
(* Replica configurator: files and lines.                                  *)
(***************************************************************************)
\* a file that does not exist, and a file with the given lines
NoFile == [exists |-> FALSE, lines |-> <<>>]
File(lines) == [exists |-> TRUE, lines |-> lines]

\* the line  key = 'value'  (what UpdateConfigurationContents writes), the
\* line  key=value  (what migratePostgresAutoConfFile writes), a comment line
Quoted(key, value) == [key |-> key, value |-> value, form |-> "quoted"]
Bare(key, value) == [key |-> key, value |-> value, form |-> "bare"]
Comment(text) == [key |-> "#", value |-> text, form |-> "comment"]

PgDataFiles ==
    {"recovery.conf", "override.conf", "standby.signal", "postgresql.auto.conf",
     "postgresql.conf"}

\* the value of restore_command both generations write
RestoreCommand == "/controller/manager wal-restore"

\* the lines recovery.conf (below 12) can get from outside the configurator
RecoveryConfLines ==
    {Comment("# Do not edit this file manually!"),
     Quoted("primary_conninfo", "host=old"),
     Quoted("primary_slot_name", "old_slot"),
     Bare("recovery_target_timeline", "latest")}

\* the lines postgresql.auto.conf (from 12 on) can hold from an earlier release
AutoConfLines ==
    {Comment("# Do not edit this file manually!"),
     Quoted("primary_conninfo", "host=old"),
     Quoted("recovery_target_timeline", "latest")}

\* the inputs of UpdateReplicaConfiguration
ConnInfos == {"", "host=p-1"}
SlotNames == {"", "_cnpg_p_2"}

\* no configurator call has been made (or its result has been consumed);
\* repeats: the call came right after the same call, which returned no error;
\* prevChanged: that call was a migration that returned changed = true
NoCall ==
    [called |-> FALSE, op |-> "none", pre |-> [f \in PgDataFiles |-> NoFile],
     primaryConnInfo |-> "", slotName |-> "", addInclude |-> FALSE,
     changed |-> FALSE, err |-> "nil", repeats |-> FALSE, prevChanged |-> FALSE]

\* a PGDATA of the given major version with none of the files
ConfStart(version) ==
    /\ major = version
    /\ files = [f \in PgDataFiles |-> NoFile]
    /\ lastCall = NoCall

(***************************************************************************)
(* Bootstrap, restore and join workflows: inputs and initial state.        *)
(***************************************************************************)
\* the workflow, the major version of PGDATA, whether ApplicationDatabase is
\* set, and the number of PostInitSQL queries
Info(workflow, majorVersion, applicationDatabase, postInitSQL) ==
    [workflow |-> workflow, majorVersion |-> majorVersion,
     ApplicationDatabase |-> applicationDatabase, PostInitSQL |-> postInitSQL]

\* the workflow has been called with the given inputs and has made no call yet
WorkflowStart(i) ==
    /\ info = i
    /\ step = 1
    /\ engine = "stopped"
    /\ recovering = TRUE
    /\ attempts = 0
    /\ polls = 0
    /\ trace = <<>>
    /\ wfErr = "nil"
    /\ returned = FALSE

\* no workflow is run
NoWorkflow ==
    /\ WorkflowStart(Info("none", 12, FALSE, 0))
    /\ parentUp = TRUE

(***************************************************************************)
(* Configuration refresh: inputs and initial state.                        *)
(***************************************************************************)
\* cluster.Spec.PostgresConfiguration.Parameters and .PgHBA, as the model
\* tells them apart
Parameters == {"shared_buffers=1", "shared_buffers=2"}
PgHBA == {"host all all all md5", "host all all all reject"}

\* the files of the refresh
PostgresqlCustomConfigurationFile == "custom.conf"
PostgresqlHBARulesFile == "pg_hba.conf"

\* a file of PGDATA that does not exist
Missing == <<>>

\* the checksum "": the empty text, a checksum being modelled as a sequence
NoSha256 == <<>>

\* no refresh call has been made (or its result has been consumed)
NoRefresh ==
    [called |-> FALSE, op |-> "none", failed |-> "none", changed |-> FALSE,
     err |-> "nil", sha256 |-> NoSha256]

\* a new instance on an empty PGDATA
RefreshStart ==
    /\ cluster = [Parameters |-> "shared_buffers=1", PgHBA |-> "host all all all md5"]
    /\ pgdata = [f \in {PostgresqlCustomConfigurationFile, PostgresqlHBARulesFile}
                    |-> Missing]
    /\ ConfigSha256 = NoSha256
    /\ lastRefresh = NoRefresh

(***************************************************************************)
(* Role synchronizer: inputs and initial state.                            *)
(***************************************************************************)
\* the role names of the model
RoleNames == {"app", "dba"}

\* the values of the eight fields areEquivalent compares, taken together
RoleAttributes == {"login", "nologin"}

\* apiv1.EnsurePresent, apiv1.EnsureAbsent
EnsurePresent == "present"
EnsureAbsent == "absent"

\* apiv1.RoleConfiguration; the attributes of a role the spec wants absent
\* are read by nothing and are taken as "nologin"
RoleConfigurations ==
    [Name : RoleNames, Ensure : {EnsurePresent}, Attributes : RoleAttributes]
    \cup [Name : RoleNames, Ensure : {EnsureAbsent}, Attributes : {"nologin"}]

\* the values of config.Roles: the lists that name no role twice
RoleLists ==
    {<<>>} \cup {<<r>> : r \in RoleConfigurations}
           \cup {pair \in {<<r, q>> : r \in RoleConfigurations, q \in RoleConfigurations} :
                     pair[1].Name # pair[2].Name}

\* *apiv1.ManagedConfiguration: nil, or a configuration with its Roles
NilConfig == <<>>
ManagedConfigurations == {NilConfig} \cup {<<roles>> : roles \in RoleLists}

\* no pass has been made (or the loop is back at its select)
NoSync ==
    [called |-> FALSE, reconciled |-> FALSE, pre |-> {}, lists |-> 0,
     creates |-> <<>>, updates |-> <<>>, deletes |-> <<>>, err |-> "nil",
     failing |-> 0]

\* NewRoleSynchronizer has returned, Start has not been called; the database
\* has none of the roles
RolesStart ==
    /\ syncPc = "new"
    /\ isPrimaryAtStart = FALSE
    /\ config = NilConfig
    /\ tickerRunning = FALSE
    /\ syncCtxDone = FALSE
    /\ rolesInDB = {}
    /\ lastSync = NoSync

InitLifecycle ==
    /\ LifecycleStart
    /\ MaxStopDelay \in 0..MaxDelay
    /\ MaxSwitchoverDelay \in 0..MaxDelay
    /\ SlotsStart
    /\ ProbeStart
    /\ ConfStart(12)
    /\ NoWorkflow
    /\ RefreshStart
    /\ RolesStart

(***************************************************************************)
(* Lifecycle supervisor: the shutdown functions.                           *)
(***************************************************************************)
\* tryShuttingDownSmartFast: smart mode first, fast mode if smart timed out
tryShuttingDownSmartFast == <<"smart", "fast">>

\* tryShuttingDownFastImmediate: fast mode first, immediate if fast timed out
tryShuttingDownFastImmediate == <<"fast", "immediate">>

\* timeout of the shutdown on context cancellation
ContextBudget == MaxStopDelay


\* faulty variant: the signal path hands the whole stop delay to the shutdown
SignalBudgetWholeDelay == MaxStopDelay

\* timeout of the shutdown on SIGINT / SIGTERM; int32 division, operands >= 0
SignalBudget == MaxStopDelay \div 2


\* faulty variant: the hard shutdown asks for a restart
handleInstanceCommandRequestsRestartsAlways(req) ==
    CASE req = RestartSmartFast ->
            [restartNeeded |-> TRUE, modes |-> tryShuttingDownSmartFast,
             timeout |-> MaxSwitchoverDelay, full |-> FALSE]
      [] req = ShutDownFastImmediate ->
            [restartNeeded |-> TRUE, modes |-> tryShuttingDownFastImmediate,
             timeout |-> MaxStopDelay, full |-> TRUE]
      [] OTHER ->
            [restartNeeded |-> FALSE, modes |-> <<>>, timeout |-> 0, full |-> FALSE]

\* faulty variant: the hard shutdown uses the graceful shutdown function
handleInstanceCommandRequestsGraceful(req) ==
    CASE req = RestartSmartFast ->
            [restartNeeded |-> TRUE, modes |-> tryShuttingDownSmartFast,
             timeout |-> MaxSwitchoverDelay, full |-> FALSE]
      [] req = ShutDownFastImmediate ->
            [restartNeeded |-> FALSE, modes |-> tryShuttingDownSmartFast,
             timeout |-> MaxStopDelay, full |-> TRUE]
      [] OTHER ->
            [restartNeeded |-> FALSE, modes |-> <<>>, timeout |-> 0, full |-> FALSE]

\* handleInstanceCommandRequests: restartNeeded, and the shutdown it runs
\* (modes = <<>>: no shutdown is run, the unrecognized request error is returned)
handleInstanceCommandRequests(req) ==
    CASE req = RestartSmartFast ->
            [restartNeeded |-> TRUE, modes |-> tryShuttingDownSmartFast,
             timeout |-> MaxSwitchoverDelay, full |-> FALSE]
      [] req = ShutDownFastImmediate ->
            [restartNeeded |-> FALSE, modes |-> tryShuttingDownFastImmediate,
             timeout |-> MaxStopDelay, full |-> TRUE]
      [] OTHER ->
            [restartNeeded |-> FALSE, modes |-> <<>>, timeout |-> 0, full |-> FALSE]

\* faulty variant: Start returns and the lifecycle's context is left as it is
StartReturnsWithoutCancel(v) ==
    /\ pc' = "done"
    /\ result' = v
    /\ UNCHANGED lifecycleCancelled

\* Start returns v; the deferred i.cancel() runs
StartReturns(v) ==
    /\ pc' = "done"
    /\ result' = v
    /\ lifecycleCancelled' = TRUE


\* faulty variant: the test of restartNeeded is inverted
EndOfCycleInverted(restart) ==
    IF ~restart
    THEN /\ pc' = "spawn"
         /\ UNCHANGED <<result, lifecycleCancelled>>
    ELSE StartReturns("nil")

\* faulty variant: the return after a command that needs no restart is missing
EndOfCycleAlwaysLoops(restart) ==
    /\ pc' = "spawn"
    /\ UNCHANGED <<result, lifecycleCancelled>>

\* what Start does once the select case has been handled: loop or return nil
EndOfCycle(restart) ==
    IF restart
    THEN /\ pc' = "spawn"
         /\ UNCHANGED <<result, lifecycleCancelled>>
    ELSE StartReturns("nil")

\* the shutdown function starts its first stage
BeginShutdown(modes, budget, full, restart) ==
    /\ pc' = "stage"
    /\ stages' = modes
    /\ modesTried' = <<Head(modes)>>
    /\ timeout' = budget
    /\ fullSequence' = full
    /\ restartNeeded' = restart
    /\ UNCHANGED <<result, lifecycleCancelled, shutdownErr>>

(***************************************************************************)
(* Lifecycle supervisor: the steps of Start.                               *)
(***************************************************************************)
\* runPostgresAndWait: spawn the postmaster of a new cycle and hand back the
\* channel on which its waiter will report the exit
runPostgresAndWait ==
    /\ pc = "spawn"
    /\ cycle' = cycle + 1
    /\ alive' = alive \cup {cycle + 1}
    /\ postMasterErrChan' = <<>>
    /\ waiterErr' = "none"
    /\ modesTried' = <<>>
    /\ pc' = "select"
    /\ UNCHANGED besidesLifecycle
    /\ UNCHANGED <<ctxDone, signals, cmdChan, sent, takenCmds, trigger, stages,
                   timeout, fullSequence, restartNeeded, shutdownErr,
                   queuedMidShutdown, result, lifecycleCancelled, MaxStopDelay,
                   MaxSwitchoverDelay>>


\* faulty variant: the error of the postmaster is logged and nil is returned
SelectPostmasterExitReturnsNil ==
    /\ pc = "select"
    /\ postMasterErrChan # <<>>
    /\ postMasterErrChan' = Tail(postMasterErrChan)
    /\ trigger' = "postmaster"
    /\ StartReturns("nil")
    /\ UNCHANGED besidesLifecycle
    /\ UNCHANGED <<cycle, alive, waiterErr, ctxDone, signals, cmdChan, sent,
                   takenCmds, stages, modesTried, timeout, fullSequence,
                   restartNeeded, shutdownErr, queuedMidShutdown, MaxStopDelay,
                   MaxSwitchoverDelay>>

\* case err := <-postMasterErrChan
SelectPostmasterExit ==
    /\ pc = "select"
    /\ postMasterErrChan # <<>>
    /\ postMasterErrChan' = Tail(postMasterErrChan)
    /\ trigger' = "postmaster"
    /\ StartReturns(Head(postMasterErrChan))
    /\ UNCHANGED besidesLifecycle
    /\ UNCHANGED <<cycle, alive, waiterErr, ctxDone, signals, cmdChan, sent,
                   takenCmds, stages, modesTried, timeout, fullSequence,
                   restartNeeded, shutdownErr, queuedMidShutdown, MaxStopDelay,
                   MaxSwitchoverDelay>>

\* faulty variant: the loop goes on after the shutdown on context cancellation
SelectContextDoneRestarts ==
    /\ pc = "select"
    /\ ctxDone
    /\ trigger' = "ctx"
    /\ BeginShutdown(tryShuttingDownSmartFast, ContextBudget, TRUE, TRUE)
    /\ UNCHANGED besidesLifecycle
    /\ UNCHANGED <<cycle, alive, postMasterErrChan, waiterErr, ctxDone, signals,
                   cmdChan, sent, takenCmds, queuedMidShutdown, MaxStopDelay,
                   MaxSwitchoverDelay>>

\* case <-ctx.Done()
SelectContextDone ==
    /\ pc = "select"
    /\ ctxDone
    /\ trigger' = "ctx"
    /\ BeginShutdown(tryShuttingDownSmartFast, ContextBudget, TRUE, FALSE)
    /\ UNCHANGED besidesLifecycle
    /\ UNCHANGED <<cycle, alive, postMasterErrChan, waiterErr, ctxDone, signals,
                   cmdChan, sent, takenCmds, queuedMidShutdown, MaxStopDelay,
                   MaxSwitchoverDelay>>

\* case sig := <-signals
SelectSignal ==
    /\ pc = "select"
    /\ signals # <<>>
    /\ signals' = Tail(signals)
    /\ trigger' = "signal"
    /\ BeginShutdown(tryShuttingDownSmartFast, SignalBudget, TRUE, FALSE)
    /\ UNCHANGED besidesLifecycle
    /\ UNCHANGED <<cycle, alive, postMasterErrChan, waiterErr, ctxDone, cmdChan,
                   sent, takenCmds, queuedMidShutdown, MaxStopDelay,
                   MaxSwitchoverDelay>>

\* faulty variant: the command channel is received from in the first cycle only
SelectCommandFirstCycleOnly ==
    /\ pc = "select"
    /\ cycle = 1
    /\ cmdChan # <<>>
    /\ LET req == Head(cmdChan)
           h == handleInstanceCommandRequests(req)
       IN /\ cmdChan' = Tail(cmdChan)
          /\ takenCmds' = Append(takenCmds, req)
          /\ trigger' = req
          /\ IF h.modes = <<>>
             THEN /\ restartNeeded' = h.restartNeeded
                  /\ shutdownErr' = "nil"
                  /\ EndOfCycle(h.restartNeeded)
                  /\ UNCHANGED <<stages, modesTried, timeout, fullSequence>>
             ELSE BeginShutdown(h.modes, h.timeout, h.full, h.restartNeeded)
    /\ UNCHANGED besidesLifecycle
    /\ UNCHANGED <<cycle, alive, postMasterErrChan, waiterErr, ctxDone, signals,
                   sent, queuedMidShutdown, MaxStopDelay, MaxSwitchoverDelay>>

\* faulty variant: the command is handled and left on the channel
SelectCommandKeepsCommand ==
    /\ pc = "select"
    /\ cmdChan # <<>>
    /\ LET req == Head(cmdChan)
           h == handleInstanceCommandRequests(req)
       IN /\ cmdChan' = cmdChan
          /\ takenCmds' = Append(takenCmds, req)
          /\ trigger' = req
          /\ IF h.modes = <<>>
             THEN /\ restartNeeded' = h.restartNeeded
                  /\ shutdownErr' = "nil"
                  /\ EndOfCycle(h.restartNeeded)
                  /\ UNCHANGED <<stages, modesTried, timeout, fullSequence>>
             ELSE BeginShutdown(h.modes, h.timeout, h.full, h.restartNeeded)
    /\ UNCHANGED besidesLifecycle
    /\ UNCHANGED <<cycle, alive, postMasterErrChan, waiterErr, ctxDone, signals,
                   sent, queuedMidShutdown, MaxStopDelay, MaxSwitchoverDelay>>

\* case req := <-i.instance.GetInstanceCommandChan()
SelectCommand ==
    /\ pc = "select"
    /\ cmdChan # <<>>
    /\ LET req == Head(cmdChan)
           h == handleInstanceCommandRequests(req)
       IN /\ cmdChan' = Tail(cmdChan)
          /\ takenCmds' = Append(takenCmds, req)
          /\ trigger' = req
          /\ IF h.modes = <<>>
             THEN /\ restartNeeded' = h.restartNeeded
                  /\ shutdownErr' = "nil"
                  /\ EndOfCycle(h.restartNeeded)
                  /\ UNCHANGED <<stages, modesTried, timeout, fullSequence>>
             ELSE BeginShutdown(h.modes, h.timeout, h.full, h.restartNeeded)
    /\ UNCHANGED besidesLifecycle
    /\ UNCHANGED <<cycle, alive, postMasterErrChan, waiterErr, ctxDone, signals,
                   sent, queuedMidShutdown, MaxStopDelay, MaxSwitchoverDelay>>

\* the current shutdown stage stops the postmaster within its wait
StageCompletes ==
    /\ pc = "stage"
    /\ alive' = alive \ {cycle}
    /\ stages' = <<>>
    /\ shutdownErr' = "nil"
    /\ EndOfCycle(restartNeeded)
    /\ UNCHANGED besidesLifecycle
    /\ UNCHANGED <<cycle, postMasterErrChan, waiterErr, ctxDone, signals, cmdChan,
                   sent, takenCmds, trigger, modesTried, timeout, fullSequence,
                   restartNeeded, queuedMidShutdown, MaxStopDelay,
                   MaxSwitchoverDelay>>

\* the first stage times out: the shutdown function escalates to the next mode
StageTimesOut ==
    /\ pc = "stage"
    /\ Len(stages) > 1
    /\ stages' = Tail(stages)
    /\ modesTried' = Append(modesTried, stages[2])
    /\ UNCHANGED besidesLifecycle
    /\ UNCHANGED <<pc, cycle, alive, postMasterErrChan, waiterErr, ctxDone,
                   signals, cmdChan, sent, takenCmds, trigger, timeout,
                   fullSequence, restartNeeded, shutdownErr, queuedMidShutdown,
                   result, lifecycleCancelled, MaxStopDelay, MaxSwitchoverDelay>>

\* the last stage fails too: the shutdown function returns its error and the
\* postmaster is left as it was
StageFails ==
    /\ pc = "stage"
    /\ Len(stages) = 1
    /\ stages' = <<>>
    /\ shutdownErr' = "ShutdownError"
    /\ EndOfCycle(restartNeeded)
    /\ UNCHANGED besidesLifecycle
    /\ UNCHANGED <<cycle, alive, postMasterErrChan, waiterErr, ctxDone, signals,
                   cmdChan, sent, takenCmds, trigger, modesTried, timeout,
                   fullSequence, restartNeeded, queuedMidShutdown, MaxStopDelay,
                   MaxSwitchoverDelay>>

(***************************************************************************)
(* Lifecycle supervisor: what happens around Start.                        *)
(***************************************************************************)
\* the postmaster of the current cycle exits on its own; its waiter reports
PostmasterExits ==
    /\ pc = "select"
    /\ cycle \in alive
    /\ postMasterErrChan = <<>>
    /\ \E e \in WaitErrors :
          /\ postMasterErrChan' = <<e>>
          /\ waiterErr' = e
    /\ alive' = alive \ {cycle}
    /\ UNCHANGED besidesLifecycle
    /\ UNCHANGED <<pc, cycle, ctxDone, signals, cmdChan, sent, takenCmds, trigger,
                   stages, modesTried, timeout, fullSequence, restartNeeded,
                   shutdownErr, queuedMidShutdown, result, lifecycleCancelled,
                   MaxStopDelay, MaxSwitchoverDelay>>

\* a postmaster left behind by a failed shutdown exits
OrphanExits ==
    /\ \E c \in alive :
          /\ c # cycle
          /\ alive' = alive \ {c}
    /\ UNCHANGED besidesLifecycle
    /\ UNCHANGED <<pc, cycle, postMasterErrChan, waiterErr, ctxDone, signals,
                   cmdChan, sent, takenCmds, trigger, stages, modesTried, timeout,
                   fullSequence, restartNeeded, shutdownErr, queuedMidShutdown,
                   result, lifecycleCancelled, MaxStopDelay, MaxSwitchoverDelay>>

\* the controller manager cancels the context passed to Start
CancelContext ==
    /\ pc # "done"
    /\ ~ctxDone
    /\ ctxDone' = TRUE
    /\ UNCHANGED besidesLifecycle
    /\ UNCHANGED <<pc, cycle, alive, postMasterErrChan, waiterErr, signals,
                   cmdChan, sent, takenCmds, trigger, stages, modesTried, timeout,
                   fullSequence, restartNeeded, shutdownErr, queuedMidShutdown,
                   result, lifecycleCancelled, MaxStopDelay, MaxSwitchoverDelay>>

\* the kubelet sends SIGINT or SIGTERM; signal.Notify drops it if the buffer is full
DeliverSignal ==
    /\ pc # "done"
    /\ signals = <<>>
    /\ \E s \in Signals : signals' = <<s>>
    /\ UNCHANGED besidesLifecycle
    /\ UNCHANGED <<pc, cycle, alive, postMasterErrChan, waiterErr, ctxDone,
                   cmdChan, sent, takenCmds, trigger, stages, modesTried, timeout,
                   fullSequence, restartNeeded, shutdownErr, queuedMidShutdown,
                   result, lifecycleCancelled, MaxStopDelay, MaxSwitchoverDelay>>

\* the reconciliation loop sends a command on the instance command channel
SendCommand ==
    /\ pc # "done"
    /\ sent < MaxCmds
    /\ \E c \in InstanceCommand : cmdChan' = Append(cmdChan, c)
    /\ sent' = sent + 1
    /\ queuedMidShutdown' = (queuedMidShutdown \/ pc = "stage")
    /\ UNCHANGED besidesLifecycle
    /\ UNCHANGED <<pc, cycle, alive, postMasterErrChan, waiterErr, ctxDone,
                   signals, takenCmds, trigger, stages, modesTried, timeout,
                   fullSequence, restartNeeded, shutdownErr, result,
                   lifecycleCancelled, MaxStopDelay, MaxSwitchoverDelay>>

NextLifecycle ==
    \/ runPostgresAndWait
    \/ SelectPostmasterExit
    \/ SelectContextDone
    \/ SelectSignal
    \/ SelectCommand
    \/ StageCompletes
    \/ StageTimesOut
    \/ StageFails
    \/ PostmasterExits
    \/ OrphanExits
    \/ CancelContext
    \/ DeliverSignal
    \/ SendCommand

LifecycleSpec == InitLifecycle /\ [][NextLifecycle]_vars

\* the steps of the goroutine that runs Start: a select with a ready case
\* takes one, and a shutdown function returns within its timeout
StartStep ==
    \/ runPostgresAndWait
    \/ SelectPostmasterExit
    \/ SelectContextDone
    \/ SelectSignal
    \/ SelectCommand
    \/ StageCompletes
    \/ StageTimesOut
    \/ StageFails

\* Start with the largest delays
InitLifecycleFair ==
    /\ LifecycleStart
    /\ MaxStopDelay = MaxDelay
    /\ MaxSwitchoverDelay = MaxDelay
    /\ SlotsStart
    /\ ProbeStart
    /\ ConfStart(12)
    /\ NoWorkflow
    /\ RefreshStart
    /\ RolesStart

\* the supervisor whose goroutine is scheduled as long as it can take a step
LifecycleFairSpec ==
    InitLifecycleFair /\ [][NextLifecycle]_vars /\ WF_vars(StartStep)

(***************************************************************************)
(* Lifecycle supervisor: properties.                                       *)
(***************************************************************************)
Range(q) == {q[i] : i \in DOMAIN q}

\* restart commands received by Start so far
RestartsTaken == Cardinality({i \in DOMAIN takenCmds : takenCmds[i] = RestartSmartFast})

\* C1: every restart command received in the select is followed by one
\* shutdown and one spawn: the number of spawned postmasters is one plus the
\* number of restart commands received (the spawn of the restart in progress
\* not yet counted), and while a shutdown stage runs no command is received
\* and no postmaster is spawned: a command sent meanwhile stays on the channel.
C1_OneCyclePerRestart ==
    /\ [](cycle = RestartsTaken
                  + (IF pc = "spawn" \/ (pc = "stage" /\ trigger = RestartSmartFast)
                     THEN 0 ELSE 1))
    /\ [][pc = "stage" =>
            (/\ takenCmds' = takenCmds
             /\ cycle' = cycle
             /\ SubSeq(cmdChan', 1, Len(cmdChan)) = cmdChan)]_vars

\* a second restart was sent during the shutdown of the first one; the first
\* one has respawned the postmaster and the second one is still queued
C1_Witness ==
    /\ pc = "select"
    /\ cycle = 2
    /\ takenCmds = <<RestartSmartFast>>
    /\ cmdChan = <<RestartSmartFast>>
    /\ queuedMidShutdown

\* C2: when Start took the exit reported by the waiter, it has returned the
\* waiter's error as it is, no shutdown mode was tried on that postmaster, and
\* nothing is spawned afterwards.
C2_ExitPropagated ==
    /\ [](trigger = "postmaster" =>
            /\ pc = "done"
            /\ result = waiterErr
            /\ modesTried = <<>>
            /\ stages = <<>>)
    /\ [][trigger = "postmaster" => (cycle' = cycle /\ pc' = "done")]_vars

C2_Witness ==
    /\ trigger = "postmaster"
    /\ result = "ExitError"
    /\ pc = "done"

\* C3: at most one postmaster spawned by the supervisor is running.
C3_AtMostOneProcess == Cardinality(alive) <= 1

\* C4: a postmaster is spawned only at the start of Start or after a restart
\* command was handled; after any other select case nothing is spawned any more.
C4_SpawnOnlyOnRestart ==
    /\ [][cycle' # cycle =>
            ((cycle = 0 /\ trigger = "none") \/ trigger = RestartSmartFast)]_vars
    /\ [][(pc = "done" \/ trigger \in {"postmaster", "ctx", "signal",
                                         ShutDownFastImmediate, "Unrecognized"})
            => (cycle' = cycle /\ pc' # "spawn")]_vars

C4_Witness ==
    /\ cycle = 2
    /\ trigger = RestartSmartFast
    /\ pc = "select"

\* C5: once a ShutDownFastImmediate command was received, no further command
\* is received, no graceful shutdown is started and no postmaster is spawned.
C5_NoRestartAfterShutDown ==
    [][(ShutDownFastImmediate \in Range(takenCmds)) =>
            (/\ takenCmds' = takenCmds
             /\ cycle' = cycle
             /\ pc' # "spawn"
             /\ trigger' = ShutDownFastImmediate)]_vars

C5_Witness ==
    /\ pc = "done"
    /\ trigger = ShutDownFastImmediate
    /\ RestartSmartFast \in Range(cmdChan)

\* C6: the modes tried on a postmaster depend on the select case alone:
\* smart, then fast, for the context, a signal and the restart command;
\* fast, then immediate, for the ShutDownFastImmediate command.
C6_EscalationOrder ==
    /\ pc = "stage" =>
          /\ modesTried # <<>>
          /\ trigger \in {"ctx", "signal", RestartSmartFast, ShutDownFastImmediate}
          /\ Head(stages) = modesTried[Len(modesTried)]
    /\ trigger \in {"ctx", "signal", RestartSmartFast} =>
          modesTried \in {<<>>, <<"smart">>, <<"smart", "fast">>}
    /\ trigger = ShutDownFastImmediate =>
          modesTried \in {<<"fast">>, <<"fast", "immediate">>}
    /\ trigger \in {"none", "postmaster", "Unrecognized"} => modesTried = <<>>

C6_Witness ==
    /\ trigger = ShutDownFastImmediate
    /\ modesTried = <<"fast", "immediate">>
    /\ pc = "stage"

\* C7: the timeout of the shutdown is MaxStopDelay for the context, half of
\* it (rounded down) for a signal, hence never more than for the context, and
\* MaxSwitchoverDelay for the restart command.
C7_Budgets ==
    /\ trigger = "ctx" => timeout = MaxStopDelay
    /\ trigger = "signal" =>
          /\ 2 * timeout <= MaxStopDelay
          /\ MaxStopDelay <= 2 * timeout + 1
          /\ timeout <= MaxStopDelay
    /\ trigger = RestartSmartFast => timeout = MaxSwitchoverDelay

C7_Witness ==
    /\ trigger = "signal"
    /\ pc = "stage"
    /\ MaxStopDelay = 3
    /\ timeout = 1

\* C22: every command sent is either still on the channel or was received by
\* Start's select, once; a command leaves the channel only when the select
\* receives it, and the handling of a command (its shutdown, or the return for
\* an unrecognized one) starts only in the step that receives it.
C22_CommandHandledOnce ==
    /\ [](Len(takenCmds) + Len(cmdChan) = sent)
    /\ [][(takenCmds' # takenCmds) =>
            (/\ pc = "select"
             /\ cmdChan # <<>>
             /\ takenCmds' = Append(takenCmds, Head(cmdChan))
             /\ cmdChan' = Tail(cmdChan)
             /\ trigger' = Head(cmdChan))]_vars
    /\ [][(cmdChan' # cmdChan) =>
            (\/ /\ sent' = sent + 1
                /\ takenCmds' = takenCmds
                /\ \E c \in InstanceCommand : cmdChan' = Append(cmdChan, c)
             \/ /\ sent' = sent
                /\ cmdChan' = Tail(cmdChan)
                /\ takenCmds' = Append(takenCmds, Head(cmdChan)))]_vars
    /\ [][(pc # "stage" /\ pc' = "stage" /\ trigger' \in InstanceCommand) =>
            (takenCmds' = Append(takenCmds, trigger'))]_vars

\* two restart commands were sent and each one was received once
C22_Witness ==
    /\ sent = 2
    /\ takenCmds = <<RestartSmartFast, RestartSmartFast>>
    /\ cmdChan = <<>>
    /\ cycle = 3

\* C23: a command sent while a shutdown stage runs is appended to the channel
\* at once and stays on it during the stage, and every command sent is
\* received by the select later on, unless Start returns first.
C23_QueuedCommandTaken ==
    /\ \A k \in 1..MaxCmds :
          (queuedMidShutdown /\ sent >= k) ~> (Len(takenCmds) >= k \/ pc = "done")
    /\ []((pc = "stage" /\ sent < MaxCmds) => ENABLED SendCommand)
    /\ [][(pc = "stage") =>
            (SubSeq(cmdChan', 1, Len(cmdChan)) = cmdChan /\ takenCmds' = takenCmds)]_vars

\* a terminal command sent during the shutdown of a restart command was
\* received in the cycle the restart started
C23_Witness ==
    /\ queuedMidShutdown
    /\ sent = 2
    /\ takenCmds = <<RestartSmartFast, ShutDownFastImmediate>>
    /\ cycle = 2
    /\ pc = "stage"

\* C24: a restart command that is on the channel with a ShutDownFastImmediate
\* command right behind it is cancelled: the select never receives it (a
\* restart command that is received is always followed by a spawn).
C24_TerminalCancelsQueuedRestart ==
    [][(/\ Len(cmdChan) >= 2
        /\ cmdChan[1] = RestartSmartFast
        /\ cmdChan[2] = ShutDownFastImmediate) =>
            (takenCmds' # Append(takenCmds, RestartSmartFast))]_vars

C29_ExitAfterFullShutdown ==
    (pc = "done" /\ trigger \in InstanceCommand) =>
        /\ fullSequence
        /\ modesTried # <<>>
        /\ (trigger \notin {RestartSmartFast, ShutDownFastImmediate}) => cycle \notin alive

\* C30: the context returned by GetContext is cancelled (i.cancel() was
\* called) when Start has returned, whatever made it return, and at no moment
\* before: not when it is created by NewPostgres, not during a restart cycle.
C30_CancelledOnReturnOnly == lifecycleCancelled <=> (pc = "done")

\* Start returned for a ShutDownFastImmediate command received in the cycle
\* that a restart command had started
C30_Witness ==
    /\ pc = "done"
    /\ lifecycleCancelled
    /\ takenCmds = <<RestartSmartFast, ShutDownFastImmediate>>
    /\ cycle = 2

(***************************************************************************)
(* Replication slot reconciler: the pass.                                  *)
(***************************************************************************)
\* currentSlots.Has(slotName)
Has(items, slotName) == \E k \in DOMAIN items : items[k].SlotName = slotName

\* faulty variant: the primary gets a slot like every other instance
IsSkippedInstanceNobody(instanceName) == FALSE

\* if instanceName == cluster.Status.CurrentPrimary { continue }
IsSkippedInstance(instanceName) == instanceName = currentPrimary

\* faulty variant: the slot is created whether it exists or not
IsMissingAlways(items, slotName) == TRUE

\* if currentSlots.Has(slotName) { continue }
IsMissing(items, slotName) == ~Has(items, slotName)

\* faulty variant: active slots are deleted like the others
IsKeptNever(slot) == FALSE

\* if slot.Active { continue }
IsKept(slot) == slot.Active

\* the result of a pass that calls nothing
NoCalls(err) ==
    [slots |-> slots, ran |-> FALSE, lists |-> 0, calls |-> 0, creates |-> <<>>,
     deletes |-> <<>>, expected |-> {}, err |-> err]

\* the loop over cluster.Status.InstanceNames, from the i-th name on; f is the
\* engine call of this pass that fails (0: none)
RECURSIVE CreateMissingSlots(_, _, _, _)
CreateMissingSlots(i, items, f, acc) ==
    IF i > Len(instanceNames) THEN acc
    ELSE IF IsSkippedInstance(instanceNames[i])
         THEN CreateMissingSlots(i + 1, items, f, acc)
         ELSE LET slotName == GetSlotNameFromInstanceName(instanceNames[i])
                  acc1 == [acc EXCEPT !.expected = @ \cup {slotName}]
                  acc2 == [acc1 EXCEPT !.calls = @ + 1,
                                       !.creates = Append(@, slotName)]
              IN IF ~IsMissing(items, slotName)
                 THEN CreateMissingSlots(i + 1, items, f, acc1)
                 ELSE IF f = acc2.calls
                      THEN [acc2 EXCEPT !.err = "CreateError"]
                      ELSE CreateMissingSlots(i + 1, items, f,
                              [acc2 EXCEPT !.slots = @ \cup
                                  {[SlotName |-> slotName, Active |-> FALSE]}])

\* the loop over currentSlots.Items, from the j-th item on
RECURSIVE DeleteStaleSlots(_, _, _, _)
DeleteStaleSlots(j, items, f, acc) ==
    IF j > Len(items) THEN acc
    ELSE LET slot == items[j]
             acc1 == [acc EXCEPT !.calls = @ + 1, !.deletes = Append(@, slot)]
         IN IF slot.SlotName \in acc.expected \/ IsKept(slot)
            THEN DeleteStaleSlots(j + 1, items, f, acc)
            ELSE IF f = acc1.calls
                 THEN [acc1 EXCEPT !.err = "DeleteError"]
                 ELSE DeleteStaleSlots(j + 1, items, f,
                         [acc1 EXCEPT !.slots = {s \in @ : s.SlotName # slot.SlotName}])

\* faulty variant: the clean-up of a disabled feature lists the slots and
\* deletes them
dropPrimaryReplicationSlotsDeletes ==
    [NoCalls("nil") EXCEPT !.ran = TRUE, !.lists = 1, !.calls = 1, !.slots = {}]

\* dropPrimaryReplicationSlots: not implemented, returns nil
dropPrimaryReplicationSlots == NoCalls("nil")

\* faulty variant: the error of a Create is kept but the pass goes on to the
\* deletions
reconcilePrimaryReplicationSlotsGoesOn(items, f) ==
    IF haConfig # "Enabled" THEN dropPrimaryReplicationSlots
    ELSE LET listed == [NoCalls("nil") EXCEPT !.ran = TRUE, !.lists = 1, !.calls = 1]
         IN IF f = 1 THEN [listed EXCEPT !.err = "ListError"]
            ELSE DeleteStaleSlots(1, items, f, CreateMissingSlots(1, items, f, listed))

\* reconcilePrimaryReplicationSlots; items is what manager.List returns
reconcilePrimaryReplicationSlots(items, f) ==
    IF haConfig # "Enabled" THEN dropPrimaryReplicationSlots
    ELSE LET listed == [NoCalls("nil") EXCEPT !.ran = TRUE, !.lists = 1, !.calls = 1]
         IN IF f = 1 THEN [listed EXCEPT !.err = "ListError"]
            ELSE LET created == CreateMissingSlots(1, items, f, listed)
                 IN IF created.err # "nil" THEN created
                    ELSE DeleteStaleSlots(1, items, f, created)

\* ReconcileReplicationSlots
ReconcileReplicationSlots(instanceName, items, f) ==
    IF haConfig \in {"ReplicationSlotsNil", "HighAvailabilityNil"}
    THEN NoCalls("nil")
    ELSE IF currentPrimary = instanceName \/ targetPrimary = instanceName
         THEN reconcilePrimaryReplicationSlots(items, f)
         ELSE NoCalls("nil")

\* the slots of the set S whose instance is one of p-1 .. p-n, by ascending name
RECURSIVE SlotsInOrder(_, _)
SlotsInOrder(S, n) ==
    IF n = 0 THEN <<>>
    ELSE LET here == {s \in S : s.SlotName = GetSlotNameFromInstanceName(InstanceName(n))}
         IN IF here = {} THEN SlotsInOrder(S, n - 1)
            ELSE Append(SlotsInOrder(S, n - 1), CHOOSE s \in here : TRUE)

Reverse(q) == [k \in 1..Len(q) |-> q[Len(q) + 1 - k]]

\* manager.List: the slots of the cluster on the instance; the query fixes no
\* order, the model takes the ascending and the descending one
ListOrders(S) ==
    LET asc == SlotsInOrder(S, NumInstances) IN {asc, Reverse(asc)}

\* one reconciliation pass on the instance instanceName, in which every engine
\* call succeeds (f = 0) or the f-th one fails
Reconcile ==
    /\ ~lastRun.called
    /\ \E instanceName \in Pool, items \in ListOrders(slots) :
       \E f \in 0..ReconcileReplicationSlots(instanceName, items, 0).calls :
          LET r == ReconcileReplicationSlots(instanceName, items, f)
          IN /\ slots' = r.slots
             /\ lastRun' = [called |-> TRUE, ran |-> r.ran, instance |-> instanceName,
                            pre |-> slots, lists |-> r.lists, creates |-> r.creates,
                            deletes |-> r.deletes, err |-> r.err,
                            afterStable |-> stable, failing |-> f]
             /\ stable' = (stable \/ (r.ran /\ r.err = "nil"))
    /\ UNCHANGED <<instanceNames, currentPrimary, targetPrimary, haConfig>>
    /\ UNCHANGED besidesSlots

\* the pass has returned to the instance reconciliation loop, which keeps
\* nothing of it
PassReturns ==
    /\ lastRun.called
    /\ lastRun' = NoRun
    /\ UNCHANGED <<slots, instanceNames, currentPrimary, targetPrimary, haConfig,
                   stable>>
    /\ UNCHANGED besidesSlots

(***************************************************************************)
(* Replication slot reconciler: what changes between two passes.           *)
(***************************************************************************)
\* a replica connects to, or disconnects from, its slot
SlotActivityChanges ==
    /\ ~lastRun.called
    /\ \E s \in slots :
          slots' = (slots \ {s}) \cup {[s EXCEPT !.Active = ~s.Active]}
    /\ UNCHANGED lastRun
    /\ stable' = FALSE
    /\ UNCHANGED <<instanceNames, currentPrimary, targetPrimary, haConfig>>
    /\ UNCHANGED besidesSlots

\* an instance joins or leaves the cluster
MembershipChanges ==
    /\ ~lastRun.called
    /\ \E n \in Pool :
          LET members == Range(instanceNames)
          IN instanceNames' =
                MembersInOrder(IF n \in members THEN members \ {n}
                               ELSE members \cup {n}, NumInstances)
    /\ UNCHANGED lastRun
    /\ stable' = FALSE
    /\ UNCHANGED <<slots, currentPrimary, targetPrimary, haConfig>>
    /\ UNCHANGED besidesSlots

\* the operator chooses a new target primary
TargetPrimaryChanges ==
    /\ ~lastRun.called
    /\ \E n \in Pool \ {targetPrimary} : targetPrimary' = n
    /\ UNCHANGED lastRun
    /\ stable' = FALSE
    /\ UNCHANGED <<slots, instanceNames, currentPrimary, haConfig>>
    /\ UNCHANGED besidesSlots

\* the target primary has been promoted
CurrentPrimaryChanges ==
    /\ ~lastRun.called
    /\ currentPrimary # targetPrimary
    /\ currentPrimary' = targetPrimary
    /\ UNCHANGED lastRun
    /\ stable' = FALSE
    /\ UNCHANGED <<slots, instanceNames, targetPrimary, haConfig>>
    /\ UNCHANGED besidesSlots

\* the replication slot configuration of the cluster is edited
SlotFeatureChanges ==
    /\ ~lastRun.called
    /\ \E h \in {"ReplicationSlotsNil", "HighAvailabilityNil", "Disabled", "Enabled"}
                \ {haConfig} : haConfig' = h
    /\ UNCHANGED lastRun
    /\ stable' = FALSE
    /\ UNCHANGED <<slots, instanceNames, currentPrimary, targetPrimary>>
    /\ UNCHANGED besidesSlots

InitSlots ==
    /\ SlotsStart
    /\ ProbeStart
    /\ ConfStart(12)
    /\ NoWorkflow
    /\ RefreshStart
    /\ RolesStart
    /\ LifecycleStart
    /\ MaxStopDelay = MaxDelay
    /\ MaxSwitchoverDelay = MaxDelay

NextSlots ==
    \/ Reconcile
    \/ PassReturns
    \/ SlotActivityChanges
    \/ MembershipChanges
    \/ TargetPrimaryChanges
    \/ CurrentPrimaryChanges
    \/ SlotFeatureChanges

SlotSpec == InitSlots /\ [][NextSlots]_vars

(***************************************************************************)
(* Replication slot reconciler: properties.                                *)
(***************************************************************************)
\* the slot names of the instances of the cluster other than the primary
ExpectedNames ==
    {GetSlotNameFromInstanceName(n) : n \in Range(instanceNames) \ {currentPrimary}}

SlotNamesOf(S) == {s.SlotName : s \in S}

\* C8: every Delete the pass issued is for a slot that existed, was not
\* active and is not expected, and no slot is deleted twice; a pass that
\* ended with no error has issued a Delete for every such slot, and every
\* slot that was active is still there.
C8_NeverDeletesActive ==
    lastRun.ran =>
        /\ \A k \in DOMAIN lastRun.deletes :
              /\ lastRun.deletes[k] \in lastRun.pre
              /\ ~lastRun.deletes[k].Active
              /\ lastRun.deletes[k].SlotName \notin ExpectedNames
        /\ Cardinality(Range(lastRun.deletes)) = Len(lastRun.deletes)
        /\ {s \in lastRun.pre : s.Active} \subseteq slots
        /\ lastRun.err = "nil" =>
              Range(lastRun.deletes) =
                 {s \in lastRun.pre : ~s.Active /\ s.SlotName \notin ExpectedNames}

\* three slots existed, one of them active, none expected: the two inactive
\* ones were deleted
C8_Witness ==
    /\ lastRun.ran
    /\ lastRun.err = "nil"
    /\ ExpectedNames = {}
    /\ Cardinality(lastRun.pre) = 3
    /\ Cardinality({s \in lastRun.pre : s.Active}) = 1
    /\ Range(lastRun.deletes) = {s \in lastRun.pre : ~s.Active}
    /\ slots = {s \in lastRun.pre : s.Active}

\* C9: a pass run when nothing has changed since a pass that reconciled with
\* no error issues no Create and no Delete, and leaves the slots as they were.
C9_SecondPassIdle ==
    (lastRun.called /\ lastRun.afterStable) =>
        /\ lastRun.creates = <<>>
        /\ lastRun.deletes = <<>>
        /\ slots = lastRun.pre

\* the second pass listed the slots, among them an active slot that is not
\* expected and expected slots
C9_Witness ==
    /\ lastRun.ran
    /\ lastRun.afterStable
    /\ lastRun.err = "nil"
    /\ lastRun.lists = 1
    /\ \E s \in slots : s.Active /\ s.SlotName \notin ExpectedNames
    /\ \E s \in slots : s.SlotName \in ExpectedNames

\* C10: no pass issues a Create for the slot of the current primary or for an
\* instance that is not a member; after a pass that ended with no error every
\* member other than the current primary has its slot, and when no slot
\* existed before the pass these are the only slots.
C10_SlotPerReplica ==
    lastRun.ran =>
        /\ GetSlotNameFromInstanceName(currentPrimary) \notin Range(lastRun.creates)
        /\ Range(lastRun.creates) \subseteq ExpectedNames
        /\ lastRun.err = "nil" =>
              /\ ExpectedNames \subseteq SlotNamesOf(slots)
              /\ lastRun.pre = {} => SlotNamesOf(slots) = ExpectedNames

\* p-1 (primary), p-2, p-3, no slot before the pass: slots of p-2 and p-3 only
C10_Witness ==
    /\ lastRun.ran
    /\ lastRun.err = "nil"
    /\ lastRun.instance = InstanceName(1)
    /\ currentPrimary = InstanceName(1)
    /\ instanceNames = <<InstanceName(1), InstanceName(2), InstanceName(3)>>
    /\ lastRun.pre = {}
    /\ SlotNamesOf(slots) = {<<"_cnpg_", "p", "_", "2">>, <<"_cnpg_", "p", "_", "3">>}

C31_NoSlotForOwnInstance ==
    lastRun.called =>
        GetSlotNameFromInstanceName(lastRun.instance) \notin Range(lastRun.creates)

\* C32: the engine call that fails is the last call of the pass and the pass
\* returns its error: after a failing List no Create and no Delete was issued,
\* after a failing Create no Delete was issued, and the slots on the instance
\* are those found before the pass with the creations and deletions that
\* succeeded before the failure applied, the failed one not
C32_FailureStopsPass ==
    (lastRun.called /\ lastRun.failing > 0) =>
        LET Made(q) == {[SlotName |-> q[k], Active |-> FALSE] : k \in DOMAIN q}
            Earlier(q) == SubSeq(q, 1, Len(q) - 1)
            creates == lastRun.creates
            deletes == lastRun.deletes
        IN /\ lastRun.err \in {"ListError", "CreateError", "DeleteError"}
           /\ lastRun.failing = lastRun.lists + Len(creates) + Len(deletes)
           /\ lastRun.err = "ListError" =>
                 /\ creates = <<>> /\ deletes = <<>>
                 /\ slots = lastRun.pre
           /\ lastRun.err = "CreateError" =>
                 /\ creates # <<>> /\ deletes = <<>>
                 /\ slots = lastRun.pre \cup Made(Earlier(creates))
                 /\ creates[Len(creates)] \notin SlotNamesOf(slots)
           /\ lastRun.err = "DeleteError" =>
                 /\ deletes # <<>>
                 /\ slots = (lastRun.pre \cup Made(creates)) \ Range(Earlier(deletes))
                 /\ deletes[Len(deletes)] \in slots

\* the second Create of a pass failed while a slot that is due for deletion
\* was on the instance
C32_Witness ==
    /\ lastRun.called
    /\ lastRun.err = "CreateError"
    /\ Len(lastRun.creates) = 2
    /\ \E s \in lastRun.pre : ~s.Active /\ s.SlotName \notin ExpectedNames

(***************************************************************************)
(* Status probe: GetStatus.                                                *)
(***************************************************************************)
\* the state of a GetStatus call: the status filled so far, the operation that
\* failed ("nil": none), whether the call panicked, and whether the two LSNs
\* of the replica have been read
Probing(status) == [result |-> status, err |-> "nil", panicked |-> FALSE, readLsn |-> FALSE]

\* the control data of PGDATA, as getEnforcedParametersThroughPgControldata
\* returns it
getEnforcedParametersThroughPgControldata == controldata

\* faulty variant: one updated setting is enough
areAllParamsUpdatedAny(decreasedValues, pgControldataParams) ==
    \E setting \in DOMAIN decreasedValues :
       pgControldataParams[setting] = decreasedValues[setting]

\* areAllParamsUpdated
areAllParamsUpdated(decreasedValues, pgControldataParams) ==
    LET readyParams == Cardinality({setting \in DOMAIN decreasedValues :
                           pgControldataParams[setting] = decreasedValues[setting]})
    IN readyParams = Cardinality(DOMAIN decreasedValues)

\* GetDecreasedSensibleSettings: the decreased settings with their new value
GetDecreasedSensibleSettings == [name \in DecreasedRows |-> fileSetting[name]]

\* faulty variant: the control data is consulted on a primary as well
updateResultForDecreaseOnPrimaryToo(p, failing) ==
    IF failing = "DecreasedSettingsQuery" THEN [p EXCEPT !.err = failing]
    ELSE LET decreasedValues == GetDecreasedSensibleSettings
         IN IF DOMAIN decreasedValues = {} THEN p
            ELSE IF failing = "PgControldata"
                 THEN [p EXCEPT !.err = failing, !.result.PendingRestartForDecrease = TRUE]
                 ELSE [p EXCEPT !.result.PendingRestartForDecrease = TRUE,
                                !.result.PendingRestart =
                                    areAllParamsUpdated(decreasedValues,
                                        getEnforcedParametersThroughPgControldata)]

\* updateResultForDecrease
updateResultForDecrease(p, failing) ==
    IF failing = "DecreasedSettingsQuery" THEN [p EXCEPT !.err = failing]
    ELSE LET decreasedValues == GetDecreasedSensibleSettings
         IN IF DOMAIN decreasedValues = {} THEN p
            ELSE LET marked == [p EXCEPT !.result.PendingRestartForDecrease = TRUE]
                 IN IF marked.result.IsPrimary THEN marked
                    ELSE IF failing = "PgControldata"
                         THEN [marked EXCEPT !.err = failing]
                         ELSE [marked EXCEPT !.result.PendingRestart =
                                  areAllParamsUpdated(decreasedValues,
                                      getEnforcedParametersThroughPgControldata)]

\* fillStatusFromPrimary
fillStatusFromPrimary(p, failing) ==
    IF failing = "PrimaryQuery" THEN [p EXCEPT !.err = failing] ELSE p

\* faulty variant: the received LSN is reported as read
ReportedReceivedLsnAsRead(received, replay) == received

\* if result.ReceivedLsn.Less(result.ReplayLsn) { result.ReceivedLsn = result.ReplayLsn }
ReportedReceivedLsn(received, replay) ==
    IF Less(received, replay) THEN replay ELSE received

\* fillStatusFromReplica; received and replay are what the query returns
fillStatusFromReplica(p, received, replay, failing) ==
    IF failing = "ReplicaQuery" THEN [p EXCEPT !.err = failing]
    ELSE LET read == [p EXCEPT !.readLsn = TRUE,
                               !.result.ReceivedLsn = ReportedReceivedLsn(received, replay),
                               !.result.ReplayLsn = replay]
         IN IF failing = "WalReceiverQuery" THEN [read EXCEPT !.err = failing]
            ELSE read

\* fillWalStatus: the error of superUserDB.Query is not looked at, rows is nil
\* when the query fails and rows.Next() dereferences it
fillWalStatus(p, failing) ==
    IF failing = "ReplicationQuery" THEN [p EXCEPT !.err = failing, !.panicked = TRUE]
    ELSE IF failing = "ReplicationRows" THEN [p EXCEPT !.err = failing]
    ELSE IF failing = "WALArchiveCounters"
         THEN [p EXCEPT !.err = failing, !.result.ReadyWALFiles = "zero"]
         ELSE [p EXCEPT !.result.ReadyWALFiles = "counted"]

\* fillStatus
fillStatus(p, received, replay, failing) ==
    LET filled == IF p.result.IsPrimary
                  THEN fillStatusFromPrimary(p, failing)
                  ELSE fillStatusFromReplica(p, received, replay, failing)
    IN IF filled.err # "nil" THEN filled ELSE fillWalStatus(filled, failing)

\* GetStatus; failing is the operation of this call that fails ("none": none)
GetStatus(received, replay, failing) ==
    LET created == Probing(NewStatus)
    IN IF PgRewindIsRunning
       THEN [created EXCEPT !.result.IsPgRewindRunning = TRUE]
       ELSE IF failing \in {"GetSuperUserDB", "StatusQuery"}
            THEN [created EXCEPT !.err = failing]
            ELSE LET scanned == [created EXCEPT
                                    !.result.IsPrimary = ~inRecovery,
                                    !.result.PendingRestart = PendingRestartSetting]
                     decrease == IF scanned.result.PendingRestart
                                 THEN updateResultForDecrease(scanned, failing)
                                 ELSE scanned
                 IN IF decrease.err # "nil" THEN decrease
                    ELSE LET filled == fillStatus(decrease, received, replay, failing)
                         IN IF filled.err # "nil" THEN filled
                            ELSE IF failing = "ExecutableHash"
                                 THEN [filled EXCEPT !.err = failing]
                                 ELSE [filled EXCEPT !.result.ExecutableHash = "hash"]

\* what the caller of GetStatus gets, and what the call read and did
Probed(p, received, replay) ==
    [called |-> TRUE,
     outcome |-> IF p.panicked THEN "panicked" ELSE "returned",
     err |-> IF p.panicked THEN "nil" ELSE p.err,
     failed |-> IF p.err = "nil" THEN "none" ELSE p.err,
     snapshot |-> IF p.panicked THEN <<>> ELSE <<p.result>>,
     received |-> IF p.readLsn THEN received ELSE NoLsn,
     replay |-> IF p.readLsn THEN replay ELSE NoLsn]

\* one GetStatus call: every operation succeeds, or the named one fails; the
\* two LSN functions of the replica query are evaluated one after the other
\* while WAL is received and replayed, so each can return any position
Probe ==
    /\ ~lastProbe.called
    /\ \E received \in Lsns, replay \in Lsns, failing \in ProbeQueries \cup {"none"} :
          lastProbe' = Probed(GetStatus(received, replay, failing), received, replay)
    /\ UNCHANGED <<PgRewindIsRunning, inRecovery, currentSetting, fileSetting,
                   controldata>>
    /\ UNCHANGED besidesProbe

\* the caller of GetStatus is done with what it got
ProbeReturns ==
    /\ lastProbe.called
    /\ lastProbe' = NoProbe
    /\ UNCHANGED <<PgRewindIsRunning, inRecovery, currentSetting, fileSetting,
                   controldata>>
    /\ UNCHANGED besidesProbe

(***************************************************************************)
(* Status probe: what changes between two calls.                           *)
(***************************************************************************)
\* the configuration file gets another value for a sensible setting and is
\* reloaded; the value is not applied before the engine restarts
FileSettingChanges ==
    /\ ~lastProbe.called
    /\ \E name \in SensibleSettings :
       \E v \in SettingValues \ {fileSetting[name]} :
          fileSetting' = [fileSetting EXCEPT ![name] = v]
    /\ UNCHANGED <<PgRewindIsRunning, inRecovery, currentSetting, controldata,
                   lastProbe>>
    /\ UNCHANGED besidesProbe

\* the engine restarts and applies the file; a primary writes the applied
\* values to its control data
EngineRestarts ==
    /\ ~lastProbe.called
    /\ currentSetting # fileSetting
    /\ currentSetting' = fileSetting
    /\ controldata' = IF inRecovery THEN controldata ELSE fileSetting
    /\ UNCHANGED <<PgRewindIsRunning, inRecovery, fileSetting, lastProbe>>
    /\ UNCHANGED besidesProbe

\* a replica replays the parameter change of its primary: the control data
\* gets the value the primary runs with
ControldataChanges ==
    /\ ~lastProbe.called
    /\ inRecovery
    /\ \E name \in SensibleSettings :
       \E v \in SettingValues \ {controldata[name]} :
          controldata' = [controldata EXCEPT ![name] = v]
    /\ UNCHANGED <<PgRewindIsRunning, inRecovery, currentSetting, fileSetting,
                   lastProbe>>
    /\ UNCHANGED besidesProbe

\* the replica is promoted
Promotion ==
    /\ ~lastProbe.called
    /\ inRecovery
    /\ ~PgRewindIsRunning
    /\ inRecovery' = FALSE
    /\ UNCHANGED <<PgRewindIsRunning, currentSetting, fileSetting, controldata,
                   lastProbe>>
    /\ UNCHANGED besidesProbe

\* a former primary is rewound to follow the new one
RewindStarts ==
    /\ ~lastProbe.called
    /\ ~inRecovery
    /\ PgRewindIsRunning' = TRUE
    /\ inRecovery' = TRUE
    /\ UNCHANGED <<currentSetting, fileSetting, controldata, lastProbe>>
    /\ UNCHANGED besidesProbe

RewindEnds ==
    /\ ~lastProbe.called
    /\ PgRewindIsRunning
    /\ PgRewindIsRunning' = FALSE
    /\ UNCHANGED <<inRecovery, currentSetting, fileSetting, controldata, lastProbe>>
    /\ UNCHANGED besidesProbe

InitProbe ==
    /\ ProbeStart
    /\ ConfStart(12)
    /\ NoWorkflow
    /\ RefreshStart
    /\ RolesStart
    /\ SlotsStart
    /\ LifecycleStart
    /\ MaxStopDelay = MaxDelay
    /\ MaxSwitchoverDelay = MaxDelay

NextProbe ==
    \/ Probe
    \/ ProbeReturns
    \/ FileSettingChanges
    \/ EngineRestarts
    \/ ControldataChanges
    \/ Promotion
    \/ RewindStarts
    \/ RewindEnds

ProbeSpec == InitProbe /\ [][NextProbe]_vars

\* a GetStatus call made by the web server goroutine while Start runs a
\* shutdown stage: the engine is stopping, any query of the call can fail
ProbeDuringShutdown ==
    /\ pc = "stage"
    /\ ~lastProbe.called
    /\ \E failing \in ProbeQueries \cup {"none"} :
          lastProbe' = Probed(GetStatus(<<0, 0>>, <<0, 0>>, failing), <<0, 0>>, <<0, 0>>)
    /\ UNCHANGED <<PgRewindIsRunning, inRecovery, currentSetting, fileSetting,
                   controldata>>
    /\ UNCHANGED besidesProbe

\* the supervisor and, during its shutdown stages, the status probe
NextShutdownProbe ==
    \/ NextLifecycle
    \/ ProbeDuringShutdown
    \/ ProbeReturns

ShutdownProbeSpec == InitLifecycleFair /\ [][NextShutdownProbe]_vars

(***************************************************************************)
(* Status probe: properties.                                               *)
(***************************************************************************)
\* the status of the last call, when the call has returned one
Snapshot == lastProbe.snapshot[1]

\* the last call went through the query of fillStatusFromReplica
ReplicaLsnRead == lastProbe.called /\ lastProbe.received # NoLsn

\* the position of an LSN in the write-ahead log, as one number
Position(lsn) == lsn[1] * (MaxLsn + 1) + lsn[2]

CompleteStatus ==
    lastProbe.called /\ lastProbe.outcome = "returned" /\ lastProbe.err = "nil"

\* C13: on a replica whose engine reports a pending restart with decreased hot
\* standby sensible settings, the status says PendingRestart = FALSE while the
\* control data still holds the old value of at least one decreased setting,
\* and PendingRestart = TRUE when the control data holds the new value of
\* every decreased setting.
C13_RestartMaskedUntilControldata ==
    (/\ CompleteStatus
     /\ ~PgRewindIsRunning
     /\ inRecovery
     /\ PendingRestartSetting
     /\ DecreasedRows # {})
    => /\ (\E name \in DecreasedRows : controldata[name] = currentSetting[name])
             => ~Snapshot.PendingRestart
       /\ (\A name \in DecreasedRows : controldata[name] = fileSetting[name])
             => Snapshot.PendingRestart

\* a status of a replica with two decreased settings, of which the control
\* data holds the new value of one and the old value of the other
C13_Witness ==
    /\ CompleteStatus
    /\ ~PgRewindIsRunning
    /\ inRecovery
    /\ DecreasedRows = SensibleSettings
    /\ \E name \in DecreasedRows : controldata[name] = fileSetting[name]
    /\ \E name \in DecreasedRows : controldata[name] = currentSetting[name]
    /\ Snapshot.PendingRestartForDecrease
    /\ ~Snapshot.PendingRestart

\* C14: when an operation of a GetStatus call fails, the call returns an
\* error and hands no status, filled in part, to its caller.
C14_ErrorAndNoSnapshot ==
    (lastProbe.called /\ lastProbe.failed # "none")
    => /\ lastProbe.outcome = "returned"
       /\ lastProbe.err # "nil"
       /\ lastProbe.snapshot = <<>>

\* C25: a GetStatus call can be made at any moment of a shutdown stage of the
\* supervisor, it waits for nothing the supervisor holds, and it returns: a
\* status, or an error.
C25_ProbeReturnsDuringShutdown ==
    /\ (pc = "stage" /\ ~lastProbe.called) => ENABLED ProbeDuringShutdown
    /\ lastProbe.called =>
          /\ lastProbe.outcome = "returned"
          /\ lastProbe.err # "nil" \/ lastProbe.snapshot # <<>>

\* C33: in a complete status, when the engine reports a pending restart,
\* PendingRestartForDecrease is TRUE exactly when the query of the decreased
\* sensible settings returns a row, PendingRestart is TRUE on a primary
\* whatever the control data holds, and PendingRestart is TRUE on a replica
\* too when no sensible setting was decreased; when the engine reports no
\* pending restart both flags are FALSE.
C33_PendingRestartFlags ==
    (CompleteStatus /\ ~PgRewindIsRunning) =>
        IF PendingRestartSetting
        THEN /\ Snapshot.PendingRestartForDecrease <=> (DecreasedRows # {})
             /\ Snapshot.IsPrimary => Snapshot.PendingRestart
             /\ (DecreasedRows = {}) => Snapshot.PendingRestart
        ELSE /\ ~Snapshot.PendingRestart
             /\ ~Snapshot.PendingRestartForDecrease

\* a complete status of a primary with a decreased setting whose new value is
\* not in the control data
C33_Witness ==
    /\ CompleteStatus
    /\ ~PgRewindIsRunning
    /\ ~inRecovery
    /\ Snapshot.IsPrimary
    /\ \E name \in DecreasedRows : controldata[name] # fileSetting[name]
    /\ Snapshot.PendingRestart
    /\ Snapshot.PendingRestartForDecrease

(***************************************************************************)
(* Replica configurator: configuration contents.                           *)
(***************************************************************************)
\* the keys the configurator writes, in alphabetical order
OptionKeys ==
    <<"primary_conninfo", "primary_slot_name", "recovery_target_timeline",
      "restore_command", "standby_mode">>

\* the iteration over an options map has no fixed order; the model takes the
\* alphabetical order and its reverse
KeyOrders == {OptionKeys, Reverse(OptionKeys)}

\* the line assigns one of the keys
Assigns(line, keys) == line.form # "comment" /\ line.key \in keys

\* faulty variant: only the first line that assigns the option is deleted
RemoveOptionFromConfigurationContentsFirstOnly(content, option) ==
    IF \E i \in DOMAIN content : Assigns(content[i], {option})
    THEN LET first == CHOOSE i \in DOMAIN content :
                         /\ Assigns(content[i], {option})
                         /\ \A j \in 1..(i - 1) : ~Assigns(content[j], {option})
         IN SubSeq(content, 1, first - 1) \o SubSeq(content, first + 1, Len(content))
    ELSE content

\* RemoveOptionFromConfigurationContents
RemoveOptionFromConfigurationContents(content, option) ==
    SelectSeq(content, LAMBDA line : ~Assigns(line, {option}))

\* RemoveOptionsFromConfigurationContents: the options are removed one by one
RECURSIVE RemoveOptionsFromConfigurationContents(_, _)
RemoveOptionsFromConfigurationContents(content, keys) ==
    IF keys = {} THEN content
    ELSE LET option == CHOOSE key \in keys : TRUE
         IN RemoveOptionsFromConfigurationContents(
                RemoveOptionFromConfigurationContents(content, option),
                keys \ {option})

\* ReadOptionsFromConfigurationContents: the value of the last line assigning
\* each of the keys
ReadOptionsFromConfigurationContents(content, keys) ==
    LET assigned == {content[i].key : i \in {j \in DOMAIN content : Assigns(content[j], keys)}}
        last(key) == CHOOSE i \in DOMAIN content :
                        /\ Assigns(content[i], {key})
                        /\ \A j \in DOMAIN content : Assigns(content[j], {key}) => j <= i
    IN [key \in assigned |-> content[last(key)].value]

\* the lines of the contents from the i-th on, the first line assigning an
\* option rewritten and the following ones dropped
RECURSIVE RewriteFrom(_, _, _, _)
RewriteFrom(content, i, options, foundKeys) ==
    IF i > Len(content) THEN <<>>
    ELSE LET line == content[i]
         IN IF ~Assigns(line, DOMAIN options)
            THEN <<line>> \o RewriteFrom(content, i + 1, options, foundKeys)
            ELSE IF line.key \in foundKeys
                 THEN RewriteFrom(content, i + 1, options, foundKeys)
                 ELSE <<Quoted(line.key, options[line.key])>> \o
                      RewriteFrom(content, i + 1, options, foundKeys \cup {line.key})

\* faulty variant: the options are appended, the lines left as they are
UpdateConfigurationContentsAppendsOnly(content, options, order) ==
    LET keys == SelectSeq(order, LAMBDA key : key \in DOMAIN options)
    IN content \o [k \in DOMAIN keys |-> Quoted(keys[k], options[keys[k]])]

\* UpdateConfigurationContents; order is the order in which the options that
\* the contents do not assign are appended
UpdateConfigurationContents(content, options, order) ==
    LET found == {content[i].key : i \in {j \in DOMAIN content :
                                             Assigns(content[j], DOMAIN options)}}
        missingKeys == SelectSeq(order, LAMBDA key : key \in DOMAIN options \ found)
    IN RewriteFrom(content, 1, options, {}) \o
       [k \in DOMAIN missingKeys |-> Quoted(missingKeys[k], options[missingKeys[k]])]

\* fileutils.WriteStringToFile: changed tells whether the file was written
WriteStringToFile(file, lines) ==
    [changed |-> ~file.exists \/ file.lines # lines, file |-> File(lines)]

\* the contents UpdatePostgresConfigurationFile hands to
\* UpdateConfigurationContents: the file without the managed options that the
\* options map does not hold
ManagedContents(file, options, managedOptions) ==
    RemoveOptionsFromConfigurationContents(file.lines, managedOptions \ DOMAIN options)

\* configfile.UpdatePostgresConfigurationFile
UpdatePostgresConfigurationFile(file, options, managedOptions, order) ==
    WriteStringToFile(file,
        UpdateConfigurationContents(ManagedContents(file, options, managedOptions),
                                    options, order))

(***************************************************************************)
(* Replica configurator: UpdateReplicaConfiguration.                       *)
(***************************************************************************)
\* the result of a configurator call
Configured(fs, changed, err) == [files |-> fs, changed |-> changed, err |-> err]

\* the optional keys of both generations
OptionalKeys(primaryConnInfo) ==
    IF primaryConnInfo # "" THEN {"primary_conninfo"} ELSE {}

\* the values of the options
OptionValue(key, primaryConnInfo, slotName) ==
    CASE key = "standby_mode" -> "on"
      [] key = "restore_command" -> RestoreCommand
      [] key = "recovery_target_timeline" -> "latest"
      [] key = "primary_slot_name" -> slotName
      [] key = "primary_conninfo" -> primaryConnInfo

\* faulty variant: recovery.conf always gets primary_slot_name
RecoveryConfOptionsWithSlot(primaryConnInfo, slotName) ==
    [key \in {"standby_mode", "restore_command", "recovery_target_timeline",
              "primary_slot_name"} \cup OptionalKeys(primaryConnInfo)
        |-> OptionValue(key, primaryConnInfo, slotName)]

\* the options map of configureRecoveryConfFile
RecoveryConfOptions(primaryConnInfo, slotName) ==
    [key \in {"standby_mode", "restore_command", "recovery_target_timeline"}
             \cup (IF slotName # "" THEN {"primary_slot_name"} ELSE {})
             \cup OptionalKeys(primaryConnInfo)
        |-> OptionValue(key, primaryConnInfo, slotName)]

\* the options map of configurePostgresOverrideConfFile
OverrideConfOptions(primaryConnInfo, slotName) ==
    [key \in {"restore_command", "recovery_target_timeline", "primary_slot_name"}
             \cup OptionalKeys(primaryConnInfo)
        |-> OptionValue(key, primaryConnInfo, slotName)]

\* configureRecoveryConfFile
configureRecoveryConfFile(fs, primaryConnInfo, slotName, order, failing) ==
    IF failing = "UpdatePostgresConfigurationFile"
    THEN Configured(fs, FALSE, failing)
    ELSE LET w == UpdatePostgresConfigurationFile(fs["recovery.conf"],
                     RecoveryConfOptions(primaryConnInfo, slotName),
                     {"primary_slot_name", "primary_conninfo"}, order)
         IN Configured([fs EXCEPT !["recovery.conf"] = w.file], w.changed, "nil")

\* configurePostgresOverrideConfFile
configurePostgresOverrideConfFile(fs, primaryConnInfo, slotName, order, failing) ==
    IF failing = "UpdatePostgresConfigurationFile"
    THEN Configured(fs, FALSE, failing)
    ELSE LET w == UpdatePostgresConfigurationFile(fs["override.conf"],
                     OverrideConfOptions(primaryConnInfo, slotName), {}, order)
         IN Configured([fs EXCEPT !["override.conf"] = w.file], w.changed, "nil")

\* createStandbySignal: os.Create makes the file empty
createStandbySignal(fs) == [fs EXCEPT !["standby.signal"] = File(<<>>)]

\* what can fail in UpdateReplicaConfiguration
ReplicaFailures ==
    {"none", "GetMajorVersion", "createStandbySignal", "UpdatePostgresConfigurationFile"}

\* faulty variant: every call that writes reports a change
UpdateReplicaConfigurationAlwaysChanged(fs, primaryConnInfo, slotName, order, failing) ==
    IF failing = "GetMajorVersion" THEN Configured(fs, FALSE, failing)
    ELSE IF major < 12
         THEN [configureRecoveryConfFile(fs, primaryConnInfo, slotName, order, failing)
                  EXCEPT !.changed = (failing = "none")]
         ELSE IF failing = "createStandbySignal" THEN Configured(fs, FALSE, failing)
              ELSE [configurePostgresOverrideConfFile(createStandbySignal(fs),
                       primaryConnInfo, slotName, order, failing)
                       EXCEPT !.changed = (failing = "none")]

\* faulty variant: override.conf is written first, standby.signal after it
UpdateReplicaConfigurationSignalLast(fs, primaryConnInfo, slotName, order, failing) ==
    IF failing = "GetMajorVersion" THEN Configured(fs, FALSE, failing)
    ELSE IF major < 12
         THEN configureRecoveryConfFile(fs, primaryConnInfo, slotName, order, failing)
         ELSE LET w == configurePostgresOverrideConfFile(fs, primaryConnInfo, slotName,
                          order, failing)
              IN IF w.err # "nil" THEN w
                 ELSE IF failing = "createStandbySignal"
                      THEN Configured(w.files, FALSE, failing)
                      ELSE Configured(createStandbySignal(w.files), w.changed, "nil")

\* UpdateReplicaConfiguration
UpdateReplicaConfiguration(fs, primaryConnInfo, slotName, order, failing) ==
    IF failing = "GetMajorVersion" THEN Configured(fs, FALSE, failing)
    ELSE IF major < 12
         THEN configureRecoveryConfFile(fs, primaryConnInfo, slotName, order, failing)
         ELSE IF failing = "createStandbySignal" THEN Configured(fs, FALSE, failing)
              ELSE configurePostgresOverrideConfFile(createStandbySignal(fs),
                       primaryConnInfo, slotName, order, failing)

(***************************************************************************)
(* Replica configurator: migratePostgresAutoConfFile.                      *)
(***************************************************************************)
\* the keys migratePostgresAutoConfFile reads from postgresql.auto.conf
MigratedKeys ==
    {"primary_slot_name", "primary_conninfo", "recovery_target_timeline",
     "restore_command"}

\* the keys cleanPostgresAutoConfFile removes from postgresql.auto.conf
CleanedKeys == {"archive_mode"} \cup MigratedKeys

\* the two lines that include override.conf from postgresql.conf
IncludeLines ==
    <<Comment("# load CloudNativePG override configuration"),
      [key |-> "include", value |-> "override.conf", form |-> "include"]>>

\* fileutils.AppendStringToFile
AppendStringToFile(file, lines) == File(file.lines \o lines)

\* faulty variant: postgresql.auto.conf is left as it is
cleanPostgresAutoConfFileKeeps(fs, failing) == Configured(fs, FALSE, "nil")

\* cleanPostgresAutoConfFile
cleanPostgresAutoConfFile(fs, failing) ==
    IF failing = "cleanPostgresAutoConfFile" THEN Configured(fs, FALSE, failing)
    ELSE LET w == WriteStringToFile(fs["postgresql.auto.conf"],
                     RemoveOptionsFromConfigurationContents(
                         fs["postgresql.auto.conf"].lines, CleanedKeys))
         IN Configured([fs EXCEPT !["postgresql.auto.conf"] = w.file], w.changed, "nil")

\* what can fail in migratePostgresAutoConfFile
MigrateFailures ==
    {"none", "ReadFile", "WriteStringToFile", "cleanPostgresAutoConfFile",
     "AppendStringToFile"}

\* migratePostgresAutoConfFile; order is the order of the iteration over the
\* options map
migratePostgresAutoConfFile(fs, addInclude, order, failing) ==
    IF failing = "ReadFile" THEN Configured(fs, FALSE, failing)
    ELSE LET options == ReadOptionsFromConfigurationContents(
                            fs["postgresql.auto.conf"].lines, MigratedKeys)
             keys == SelectSeq(order, LAMBDA key : key \in DOMAIN options)
             builder == [k \in DOMAIN keys |-> Bare(keys[k], options[keys[k]])]
         IN IF DOMAIN options = {} THEN Configured(fs, FALSE, "nil")
            ELSE IF failing = "WriteStringToFile" THEN Configured(fs, FALSE, failing)
            ELSE LET w == WriteStringToFile(fs["override.conf"], builder)
                     migrated == [fs EXCEPT !["override.conf"] = w.file]
                     cleaned == cleanPostgresAutoConfFile(migrated, failing)
                 IN IF ~w.changed THEN Configured(migrated, FALSE, "nil")
                    ELSE IF cleaned.err # "nil"
                         THEN Configured(cleaned.files, TRUE, cleaned.err)
                    ELSE IF ~addInclude THEN Configured(cleaned.files, TRUE, "nil")
                    ELSE IF failing = "AppendStringToFile"
                         THEN Configured(cleaned.files, TRUE, failing)
                         ELSE Configured(
                                 [cleaned.files EXCEPT !["postgresql.conf"] =
                                     AppendStringToFile(@, IncludeLines)],
                                 TRUE, "nil")

(***************************************************************************)
(* Replica configurator: calls and what happens between them.              *)
(***************************************************************************)
\* one UpdateReplicaConfiguration call; a caller that has not yet let go of
\* the result of a call makes the same call again
UpdateReplica ==
    /\ \E primaryConnInfo \in ConnInfos, slotName \in SlotNames,
          order \in KeyOrders, failing \in ReplicaFailures :
          LET r == UpdateReplicaConfiguration(files, primaryConnInfo, slotName,
                                              order, failing)
          IN /\ lastCall.called =>
                   /\ lastCall.op = "replica"
                   /\ lastCall.primaryConnInfo = primaryConnInfo
                   /\ lastCall.slotName = slotName
             /\ files' = r.files
             /\ lastCall' = [called |-> TRUE, op |-> "replica", pre |-> files,
                             primaryConnInfo |-> primaryConnInfo,
                             slotName |-> slotName, addInclude |-> FALSE,
                             changed |-> r.changed, err |-> r.err,
                             repeats |-> lastCall.called /\ lastCall.err = "nil",
                             prevChanged |-> FALSE]
    /\ UNCHANGED major
    /\ UNCHANGED besidesConf

\* one migratePostgresAutoConfFile call, made from 12 on
Migrate ==
    /\ major >= 12
    /\ \E addInclude \in BOOLEAN, order \in KeyOrders, failing \in MigrateFailures :
          LET r == migratePostgresAutoConfFile(files, addInclude, order, failing)
          IN /\ lastCall.called =>
                   /\ lastCall.op = "migrate"
                   /\ lastCall.addInclude = addInclude
             /\ files' = r.files
             /\ lastCall' = [called |-> TRUE, op |-> "migrate", pre |-> files,
                             primaryConnInfo |-> "", slotName |-> "",
                             addInclude |-> addInclude,
                             changed |-> r.changed, err |-> r.err,
                             repeats |-> lastCall.called /\ lastCall.err = "nil",
                             prevChanged |-> lastCall.called /\ lastCall.changed]
    /\ UNCHANGED major
    /\ UNCHANGED besidesConf

\* the caller is done with the result of the call
CallReturns ==
    /\ lastCall.called
    /\ lastCall' = NoCall
    /\ UNCHANGED <<major, files>>
    /\ UNCHANGED besidesConf

\* below 12, a line is added to recovery.conf from outside the configurator
RecoveryConfEdited ==
    /\ ~lastCall.called
    /\ major < 12
    /\ Len(files["recovery.conf"].lines) < MaxLines
    /\ \E line \in RecoveryConfLines :
          files' = [files EXCEPT !["recovery.conf"] = File(Append(@.lines, line))]
    /\ UNCHANGED <<major, lastCall>>
    /\ UNCHANGED besidesConf

\* from 12 on, postgresql.auto.conf holds a few lines written before
\* override.conf existed
AutoConfEdited ==
    /\ ~lastCall.called
    /\ major >= 12
    /\ ~files["override.conf"].exists
    /\ Len(files["postgresql.auto.conf"].lines) < MaxLines - 1
    /\ \E line \in AutoConfLines :
          files' = [files EXCEPT !["postgresql.auto.conf"] = File(Append(@.lines, line))]
    /\ UNCHANGED <<major, lastCall>>
    /\ UNCHANGED besidesConf

\* below 12, the engine is promoted and renames recovery.conf
Promoted ==
    /\ ~lastCall.called
    /\ major < 12
    /\ files["recovery.conf"].exists
    /\ files' = [files EXCEPT !["recovery.conf"] = NoFile]
    /\ UNCHANGED <<major, lastCall>>
    /\ UNCHANGED besidesConf

InitConf ==
    /\ \E version \in {11, 12} : ConfStart(version)
    /\ NoWorkflow
    /\ RefreshStart
    /\ RolesStart
    /\ ProbeStart
    /\ SlotsStart
    /\ LifecycleStart
    /\ MaxStopDelay = MaxDelay
    /\ MaxSwitchoverDelay = MaxDelay

NextConf ==
    \/ UpdateReplica
    \/ Migrate
    \/ CallReturns
    \/ RecoveryConfEdited
    \/ AutoConfEdited
    \/ Promoted

ConfSpec == InitConf /\ [][NextConf]_vars

\* the lines postgresql.auto.conf holds when cleanPostgresAutoConfFile is
\* called on its own
CleanLines ==
    {Comment("# Do not edit this file manually!"),
     Quoted("primary_conninfo", "host=old"),
     Quoted("archive_mode", "on"),
     Quoted("archive_mode", "always"),
     Quoted("recovery_target_timeline", "latest")}

\* one cleanPostgresAutoConfFile call
Clean ==
    /\ \E failing \in {"none", "cleanPostgresAutoConfFile"} :
          LET r == cleanPostgresAutoConfFile(files, failing)
          IN /\ files' = r.files
             /\ lastCall' = [called |-> TRUE, op |-> "clean", pre |-> files,
                             primaryConnInfo |-> "", slotName |-> "",
                             addInclude |-> FALSE,
                             changed |-> r.changed, err |-> r.err,
                             repeats |-> lastCall.called /\ lastCall.err = "nil",
                             prevChanged |-> FALSE]
    /\ UNCHANGED major
    /\ UNCHANGED besidesConf

\* a PGDATA of version 12 whose postgresql.auto.conf holds up to MaxLines lines
InitClean ==
    /\ major = 12
    /\ \E n \in 0..MaxLines : \E content \in [1..n -> CleanLines] :
          files = [f \in PgDataFiles |->
                      IF f = "postgresql.auto.conf" THEN File(content) ELSE NoFile]
    /\ lastCall = NoCall
    /\ NoWorkflow
    /\ RefreshStart
    /\ RolesStart
    /\ ProbeStart
    /\ SlotsStart
    /\ LifecycleStart
    /\ MaxStopDelay = MaxDelay
    /\ MaxSwitchoverDelay = MaxDelay

NextClean ==
    \/ Clean
    \/ CallReturns

CleanSpec == InitClean /\ [][NextClean]_vars

(***************************************************************************)
(* Replica configurator: properties.                                       *)
(***************************************************************************)
\* the last call was an UpdateReplicaConfiguration that returned no error
ReplicaConfigured ==
    lastCall.called /\ lastCall.op = "replica" /\ lastCall.err = "nil"

\* the file UpdateReplicaConfiguration writes the options to
ReplicaFile == IF major < 12 THEN "recovery.conf" ELSE "override.conf"

\* the lines of the contents that assign the key
LinesOf(content, key) == SelectSeq(content, LAMBDA line : Assigns(line, {key}))

\* C15: an UpdateReplicaConfiguration call made right after a call with the
\* same data directory, connection string and slot name returns changed =
\* false and leaves every file with the content the first call gave it, below
\* major version 12 (recovery.conf) and from 12 on (override.conf).
C15_SecondCallChangesNothing ==
    (ReplicaConfigured /\ lastCall.repeats)
    => /\ ~lastCall.changed
       /\ files = lastCall.pre

\* a second call below 12 with a connection string and a slot name, on a
\* recovery.conf that holds more lines than the options
C15_Witness ==
    /\ ReplicaConfigured
    /\ lastCall.repeats
    /\ major < 12
    /\ lastCall.primaryConnInfo # ""
    /\ lastCall.slotName # ""
    /\ Len(files["recovery.conf"].lines) > Cardinality(DOMAIN RecoveryConfOptions("a", "b"))

\* C16: from 12 on override.conf holds after the call one primary_slot_name
\* line with the slot name, also when the slot name is empty; below 12
\* recovery.conf gets a primary_slot_name line only for a non-empty slot name.
\* In both generations a primary_conninfo line is written only for a non-empty
\* connection string. A key that is not written gets no new line.
C16_SlotAndConnInfoLines ==
    ReplicaConfigured
    => LET post == files[ReplicaFile].lines
           pre == lastCall.pre[ReplicaFile].lines
           Written(key, value) == LinesOf(post, key) = <<Quoted(key, value)>>
           NotWritten(key) == \A i \in DOMAIN LinesOf(post, key) :
                                 \E j \in DOMAIN pre : pre[j] = LinesOf(post, key)[i]
       IN /\ major >= 12 => Written("primary_slot_name", lastCall.slotName)
          /\ (major < 12 /\ lastCall.slotName # "")
                => Written("primary_slot_name", lastCall.slotName)
          /\ (major < 12 /\ lastCall.slotName = "") => NotWritten("primary_slot_name")
          /\ lastCall.primaryConnInfo # ""
                => Written("primary_conninfo", lastCall.primaryConnInfo)
          /\ lastCall.primaryConnInfo = "" => NotWritten("primary_conninfo")

\* a call from 12 on with an empty slot name on an override.conf that held a
\* slot name
C16_Witness ==
    /\ ReplicaConfigured
    /\ major >= 12
    /\ lastCall.slotName = ""
    /\ LinesOf(lastCall.pre["override.conf"].lines, "primary_slot_name")
          = <<Quoted("primary_slot_name", "_cnpg_p_2")>>
    /\ LinesOf(files["override.conf"].lines, "primary_slot_name")
          = <<Quoted("primary_slot_name", "")>>

\* C17: UpdateConfigurationContents keeps every line that assigns none of the
\* given keys, unchanged and at its place among the lines kept; the first line
\* assigning a given key is replaced, where it stands, by the line with the
\* new value; the later lines assigning that key are dropped; the given keys
\* that no line assigns are appended after all these lines.
C17_UpdateKeepsRewritesDropsAppends ==
    ReplicaConfigured
    => LET options == IF major < 12
                      THEN RecoveryConfOptions(lastCall.primaryConnInfo, lastCall.slotName)
                      ELSE OverrideConfOptions(lastCall.primaryConnInfo, lastCall.slotName)
           content == ManagedContents(lastCall.pre[ReplicaFile], options,
                         IF major < 12 THEN {"primary_slot_name", "primary_conninfo"}
                         ELSE {})
           post == files[ReplicaFile].lines
           Given(i) == Assigns(content[i], DOMAIN options)
           First(i) == Given(i) /\ \A j \in 1..(i - 1) : content[j].key # content[i].key
           Kept == {i \in DOMAIN content : ~Given(i) \/ First(i)}
           Place(i) == Cardinality({j \in Kept : j <= i})
           absent == {key \in DOMAIN options :
                         \A i \in DOMAIN content : ~Assigns(content[i], {key})}
       IN /\ Len(post) = Cardinality(Kept) + Cardinality(absent)
          /\ \A i \in Kept :
                post[Place(i)] = IF Given(i)
                                 THEN Quoted(content[i].key, options[content[i].key])
                                 ELSE content[i]
          /\ \A key \in absent :
                \E k \in (Cardinality(Kept) + 1)..Len(post) :
                   post[k] = Quoted(key, options[key])

\* a call below 12 on a recovery.conf with a comment between two lines that
\* assign primary_conninfo, and no line for the other keys
C17_Witness ==
    /\ ReplicaConfigured
    /\ major < 12
    /\ lastCall.primaryConnInfo = "host=p-1"
    /\ lastCall.pre["recovery.conf"].lines =
          <<Quoted("primary_conninfo", "host=old"),
            Comment("# Do not edit this file manually!"),
            Quoted("primary_conninfo", "host=old")>>
    /\ Len(files["recovery.conf"].lines) > 3

\* C18: a migratePostgresAutoConfFile call on a postgresql.auto.conf that
\* assigns none of primary_slot_name, primary_conninfo,
\* recovery_target_timeline and restore_command changes no file and returns
\* changed = false; so does the call made right after a call that migrated
\* (returned changed = true and no error).
C18_MigratesOnce ==
    (lastCall.called /\ lastCall.op = "migrate")
    => LET auto == lastCall.pre["postgresql.auto.conf"].lines
           idle == ~lastCall.changed /\ files = lastCall.pre
       IN /\ (\A i \in DOMAIN auto : ~Assigns(auto[i], MigratedKeys)) => idle
          /\ (lastCall.repeats /\ lastCall.prevChanged) => idle

\* the call right after a migration that moved two keys to override.conf and
\* added the include to postgresql.conf
C18_Witness ==
    /\ lastCall.called
    /\ lastCall.op = "migrate"
    /\ lastCall.err = "nil"
    /\ lastCall.repeats
    /\ lastCall.prevChanged
    /\ Len(files["override.conf"].lines) = 2
    /\ files["postgresql.conf"].lines = IncludeLines

\* C34: below major version 12 an UpdateReplicaConfiguration call changes no
\* file but recovery.conf, which holds standby_mode = 'on' after a call without
\* error, and standby.signal is never created; from 12 on standby.signal
\* exists whenever the call got as far as writing override.conf, recovery.conf
\* is not touched, and a call in which creating standby.signal failed has
\* changed no file and returns changed = false with the error.
C34_DispatchOnMajorVersion ==
    (lastCall.called /\ lastCall.op = "replica")
    => LET pre == lastCall.pre
           OnlyChanges(written) == \A f \in PgDataFiles \ written : files[f] = pre[f]
       IN /\ major < 12 =>
                /\ OnlyChanges({"recovery.conf"})
                /\ ~files["standby.signal"].exists
                /\ lastCall.err = "nil" =>
                      LinesOf(files["recovery.conf"].lines, "standby_mode")
                         = <<Quoted("standby_mode", "on")>>
          /\ major >= 12 =>
                /\ OnlyChanges({"standby.signal", "override.conf"})
                /\ lastCall.err = "createStandbySignal" =>
                      /\ files = pre
                      /\ ~lastCall.changed
                /\ lastCall.err = "UpdatePostgresConfigurationFile" =>
                      /\ files["standby.signal"] = File(<<>>)
                      /\ files["override.conf"] = pre["override.conf"]
                /\ lastCall.err = "nil" =>
                      /\ files["standby.signal"] = File(<<>>)
                      /\ files["override.conf"].exists
          /\ lastCall.err # "nil" => ~lastCall.changed

\* from 12 on, creating standby.signal failed in a PGDATA that has neither
\* the marker file nor override.conf
C34_Witness ==
    /\ lastCall.called
    /\ lastCall.op = "replica"
    /\ major >= 12
    /\ lastCall.err = "createStandbySignal"
    /\ ~files["standby.signal"].exists
    /\ ~files["override.conf"].exists

\* C36: after a migratePostgresAutoConfFile call that returned no error, no
\* line of postgresql.auto.conf assigns primary_slot_name, primary_conninfo,
\* recovery_target_timeline or restore_command, and override.conf holds, for
\* each of these keys the file assigned before the call, the value it had;
\* also when override.conf had that content before the call.
C36_MigratedAfterReturn ==
    (lastCall.called /\ lastCall.op = "migrate" /\ lastCall.err = "nil")
    => LET auto == files["postgresql.auto.conf"].lines
           options == ReadOptionsFromConfigurationContents(
                          lastCall.pre["postgresql.auto.conf"].lines, MigratedKeys)
       IN /\ \A i \in DOMAIN auto : ~Assigns(auto[i], MigratedKeys)
          /\ \A key \in DOMAIN options :
                Bare(key, options[key]) \in Range(files["override.conf"].lines)

\* what is left of content once the option is removed, told line by line:
\* the lines that do not assign the option, each at the place it has among them
IsContentWithout(removed, content, option) ==
    LET kept == {i \in DOMAIN content : ~Assigns(content[i], {option})}
    IN /\ Len(removed) = Cardinality(kept)
       /\ \A i \in kept : removed[Cardinality({j \in kept : j <= i})] = content[i]

\* C27: removing an option from configuration contents deletes every line
\* that assigns it and keeps the other lines, in their order; contents without
\* such a line come back as they were, and removing the option once more
\* changes nothing. For cleanPostgresAutoConfFile: after a call without error
\* no line of postgresql.auto.conf assigns one of its five options, the other
\* lines are kept in their order, and a second call changes nothing.
C27_RemoveOption ==
    /\ \A option \in CleanedKeys :
          LET content == files["postgresql.auto.conf"].lines
              removed == RemoveOptionFromConfigurationContents(content, option)
          IN /\ \A k \in DOMAIN removed : ~Assigns(removed[k], {option})
             /\ IsContentWithout(removed, content, option)
             /\ (\A i \in DOMAIN content : ~Assigns(content[i], {option}))
                   => removed = content
             /\ RemoveOptionFromConfigurationContents(removed, option) = removed
    /\ (lastCall.called /\ lastCall.op = "clean" /\ lastCall.err = "nil") =>
          LET before == lastCall.pre["postgresql.auto.conf"].lines
              after == files["postgresql.auto.conf"].lines
              kept == {i \in DOMAIN before : ~Assigns(before[i], CleanedKeys)}
          IN /\ \A k \in DOMAIN after : ~Assigns(after[k], CleanedKeys)
             /\ Len(after) = Cardinality(kept)
             /\ \A i \in kept : after[Cardinality({j \in kept : j <= i})] = before[i]
             /\ lastCall.changed <=> (after # before)
             /\ lastCall.repeats => (~lastCall.changed /\ after = before)

\* a file with two lines that assign archive_mode, around a comment, cleaned
C27_Witness ==
    /\ lastCall.called
    /\ lastCall.op = "clean"
    /\ lastCall.changed
    /\ lastCall.pre["postgresql.auto.conf"].lines =
          <<Quoted("archive_mode", "on"), Comment("# Do not edit this file manually!"),
            Quoted("archive_mode", "always")>>
    /\ files["postgresql.auto.conf"].lines = <<Comment("# Do not edit this file manually!")>>

(***************************************************************************)
(* Bootstrap, restore and join workflows: the calls each one makes.        *)
(***************************************************************************)
\* n times the query
RECURSIVE Repeat(_, _)
Repeat(call, n) == IF n = 0 THEN <<>> ELSE <<call>> \o Repeat(call, n - 1)

\* instance.WithActiveInstance(inner): the engine is started, inner is run and
\* the engine is stopped when inner has returned, whatever it returned
WithActiveInstance(inner) == <<"Startup">> \o inner \o <<"Shutdown">>

\* ConfigureNewInstance
ConfigureNewInstance(i) ==
    <<"CREATE USER">>
    \o (IF i.ApplicationDatabase THEN <<"CREATE DATABASE">> ELSE <<>>)
    \o Repeat("PostInitSQL", i.PostInitSQL)

\* faulty variant: the engine is started and left running
BootstrapLeavesEngine(i) ==
    <<"CreateDataDirectory", "GetMajorVersion">>
    \o (IF i.majorVersion >= 12 THEN <<"configurePostgresAutoConfFile">> ELSE <<>>)
    \o <<"Startup", "GetSuperUserDB">> \o ConfigureNewInstance(i)

\* InitInfo.Bootstrap
Bootstrap(i) ==
    <<"CreateDataDirectory", "GetMajorVersion">>
    \o (IF i.majorVersion >= 12 THEN <<"configurePostgresAutoConfFile">> ELSE <<>>)
    \o WithActiveInstance(<<"GetSuperUserDB">> \o ConfigureNewInstance(i))

\* InitInfo.forceSuperuserPassword
forceSuperuserPassword(i) ==
    <<"ReadFile", "GetMajorVersion">>
    \o WithActiveInstance(
          <<"GetSuperUserDB", "waitUntilRecoveryFinishes", "ALTER USER">>
          \o (IF i.majorVersion >= 12 THEN <<"ConfigureReplica">> ELSE <<>>))

\* ClonePgData
ClonePgData == <<"sql.Open", "waitForConnectionAvailable", "pg_basebackup">>

\* faulty variant: the replica configuration is written before the clone
JoinConfiguresFirst(i) == <<"UpdateReplicaConfiguration">> \o ClonePgData

\* JoinInfo.Join
Join(i) == ClonePgData \o <<"UpdateReplicaConfiguration">>

\* the calls of the workflow that is run
Calls ==
    CASE info.workflow = "Bootstrap" -> Bootstrap(info)
      [] info.workflow = "Restore" -> forceSuperuserPassword(info)
      [] info.workflow = "Join" -> Join(info)
      [] OTHER -> <<>>

\* the call that stops the engine once inner has returned: the Shutdown of
\* WithActiveInstance, or the end of the workflow when there is none
Deferred ==
    IF \E k \in DOMAIN Calls : Calls[k] = "Shutdown"
    THEN CHOOSE k \in DOMAIN Calls : Calls[k] = "Shutdown"
    ELSE Len(Calls) + 1

Called(call, ok) == [call |-> call, ok |-> ok]

(***************************************************************************)
(* Bootstrap, restore and join workflows: steps.                           *)
(***************************************************************************)
\* the next call succeeds; the calls with a step of their own are left out
CallSucceeds ==
    /\ ~returned
    /\ step <= Len(Calls)
    /\ Calls[step] \notin {"Startup", "Shutdown", "waitUntilRecoveryFinishes",
                           "waitForConnectionAvailable"}
    /\ trace' = Append(trace, Called(Calls[step], TRUE))
    /\ step' = step + 1
    /\ UNCHANGED <<info, polls, engine, recovering, parentUp, attempts, wfErr, returned>>
    /\ UNCHANGED besidesWorkflow

\* faulty variant: a failing query of waitUntilRecoveryFinishes is retried
\* like the answer "in recovery"
CallFailsRetried ==
    /\ ~returned
    /\ step <= Len(Calls)
    /\ Calls[step] \notin {"Shutdown", "waitForConnectionAvailable"}
    /\ trace' = Append(trace, Called(Calls[step], FALSE))
    /\ IF Calls[step] = "waitUntilRecoveryFinishes"
       THEN UNCHANGED <<step, wfErr, returned>>
       ELSE /\ wfErr' = Calls[step]
            /\ IF engine = "running"
               THEN step' = Deferred /\ returned' = (Deferred > Len(Calls))
               ELSE step' = step /\ returned' = TRUE
    /\ UNCHANGED <<info, polls, engine, recovering, parentUp, attempts>>
    /\ UNCHANGED besidesWorkflow

\* the next call returns an error: inside WithActiveInstance inner returns it
\* and the engine is stopped next, elsewhere the workflow returns it
CallFails ==
    /\ ~returned
    /\ step <= Len(Calls)
    /\ Calls[step] \notin {"Shutdown", "waitForConnectionAvailable"}
    /\ trace' = Append(trace, Called(Calls[step], FALSE))
    /\ wfErr' = Calls[step]
    /\ IF engine = "running"
       THEN step' = Deferred /\ returned' = (Deferred > Len(Calls))
       ELSE step' = step /\ returned' = TRUE
    /\ UNCHANGED <<info, polls, engine, recovering, parentUp, attempts>>
    /\ UNCHANGED besidesWorkflow

\* instance.Startup succeeds: the engine runs
Startup ==
    /\ ~returned
    /\ step <= Len(Calls)
    /\ Calls[step] = "Startup"
    /\ engine' = "running"
    /\ trace' = Append(trace, Called("Startup", TRUE))
    /\ step' = step + 1
    /\ UNCHANGED <<info, polls, recovering, parentUp, attempts, wfErr, returned>>
    /\ UNCHANGED besidesWorkflow

\* the deferred instance.Shutdown of WithActiveInstance: the engine is stopped
\* and WithActiveInstance returns what inner returned
Shutdown ==
    /\ ~returned
    /\ step <= Len(Calls)
    /\ Calls[step] = "Shutdown"
    /\ engine' = "stopped"
    /\ trace' = Append(trace, Called("Shutdown", TRUE))
    /\ step' = Len(Calls) + 1
    /\ returned' = TRUE
    /\ UNCHANGED <<info, polls, recovering, parentUp, attempts, wfErr>>
    /\ UNCHANGED besidesWorkflow

\* the workflow has made its last call and returns nil
WorkflowReturns ==
    /\ ~returned
    /\ step = Len(Calls) + 1
    /\ info.workflow # "none"
    /\ returned' = TRUE
    /\ UNCHANGED <<info, polls, step, engine, recovering, parentUp, attempts, trace, wfErr>>
    /\ UNCHANGED besidesWorkflow

\* faulty variant: the wait gives up when a second poll finds the engine in
\* recovery
PollRecoveryGivesUp ==
    /\ ~returned
    /\ step <= Len(Calls)
    /\ Calls[step] = "waitUntilRecoveryFinishes"
    /\ IF recovering
       THEN /\ polls < MaxPolls
            /\ polls' = polls + 1
            /\ IF polls = 0
               THEN UNCHANGED <<step, trace, wfErr, returned>>
               ELSE /\ step' = Deferred
                    /\ trace' = Append(trace, Called("waitUntilRecoveryFinishes", FALSE))
                    /\ wfErr' = "instance in recovery"
                    /\ UNCHANGED returned
       ELSE /\ step' = step + 1
            /\ trace' = Append(trace, Called("waitUntilRecoveryFinishes", TRUE))
            /\ UNCHANGED <<polls, wfErr, returned>>
    /\ UNCHANGED <<info, engine, recovering, parentUp, attempts>>
    /\ UNCHANGED besidesWorkflow

\* one round of waitUntilRecoveryFinishes: the query says that the engine is
\* in recovery and is asked again after the delay, or that it is not
PollRecovery ==
    /\ ~returned
    /\ step <= Len(Calls)
    /\ Calls[step] = "waitUntilRecoveryFinishes"
    /\ IF recovering
       THEN /\ polls < MaxPolls
            /\ polls' = polls + 1
            /\ UNCHANGED <<step, trace, wfErr, returned>>
       ELSE /\ step' = step + 1
            /\ trace' = Append(trace, Called("waitUntilRecoveryFinishes", TRUE))
            /\ UNCHANGED <<polls, wfErr, returned>>
    /\ UNCHANGED <<info, engine, recovering, parentUp, attempts>>
    /\ UNCHANGED besidesWorkflow

\* the engine started for the restore reaches consistency and promotes itself
RecoveryFinishes ==
    /\ info.workflow = "Restore"
    /\ engine = "running"
    /\ recovering
    /\ recovering' = FALSE
    /\ UNCHANGED <<info, polls, step, engine, parentUp, attempts, trace, wfErr, returned>>
    /\ UNCHANGED besidesWorkflow

\* one connection attempt of waitForConnectionAvailable: the parent accepts
\* it, or it does not and the wait goes on until the attempts are used up
TryConnection ==
    /\ ~returned
    /\ step <= Len(Calls)
    /\ Calls[step] = "waitForConnectionAvailable"
    /\ attempts < MaxRetries
    /\ attempts' = attempts + 1
    /\ IF parentUp
       THEN /\ step' = step + 1
            /\ trace' = Append(trace, Called("waitForConnectionAvailable", TRUE))
            /\ UNCHANGED <<wfErr, returned>>
       ELSE IF attempts' < MaxRetries
            THEN UNCHANGED <<step, trace, wfErr, returned>>
            ELSE /\ trace' = Append(trace, Called("waitForConnectionAvailable", FALSE))
                 /\ wfErr' = "primary server not available"
                 /\ returned' = TRUE
                 /\ UNCHANGED step
    /\ UNCHANGED <<info, polls, engine, recovering, parentUp>>
    /\ UNCHANGED besidesWorkflow

\* the parent starts or stops accepting connections while the join waits
ParentChanges ==
    /\ ~returned
    /\ step <= Len(Calls)
    /\ Calls[step] = "waitForConnectionAvailable"
    /\ parentUp' = ~parentUp
    /\ UNCHANGED <<info, polls, step, engine, recovering, attempts, trace, wfErr, returned>>
    /\ UNCHANGED besidesWorkflow

InitWorkflow ==
    /\ \E workflow \in {"Bootstrap", "Restore", "Join"}, majorVersion \in {11, 12},
          applicationDatabase \in BOOLEAN, postInitSQL \in 0..MaxPostInitSQL :
          /\ workflow # "Bootstrap" => (~applicationDatabase /\ postInitSQL = 0)
          /\ workflow = "Join" => majorVersion = 12
          /\ WorkflowStart(Info(workflow, majorVersion, applicationDatabase, postInitSQL))
    /\ parentUp \in BOOLEAN
    /\ info.workflow # "Join" => parentUp
    /\ RefreshStart
    /\ RolesStart
    /\ ConfStart(12)
    /\ ProbeStart
    /\ SlotsStart
    /\ LifecycleStart
    /\ MaxStopDelay = MaxDelay
    /\ MaxSwitchoverDelay = MaxDelay

NextWorkflow ==
    \/ CallSucceeds
    \/ CallFails
    \/ Startup
    \/ Shutdown
    \/ WorkflowReturns
    \/ PollRecovery
    \/ RecoveryFinishes
    \/ TryConnection
    \/ ParentChanges

WorkflowSpec == InitWorkflow /\ [][NextWorkflow]_vars

\* the workflows with a wait of waitUntilRecoveryFinishes that goes on asking:
\* retry.OnError sleeps the delay and calls the function again, with no limit
\* on the number of steps
WorkflowFairSpec == InitWorkflow /\ [][NextWorkflow]_vars /\ WF_vars(PollRecovery)

(***************************************************************************)
(* Bootstrap, restore and join workflows: properties.                      *)
(***************************************************************************)
\* the call has been made (with the given outcome)
Made(call) == \E k \in DOMAIN trace : trace[k].call = call
Succeeded(call) == \E k \in DOMAIN trace : trace[k] = Called(call, TRUE)
Failed(call) == \E k \in DOMAIN trace : trace[k] = Called(call, FALSE)

\* C19: when a bootstrap or a restore returns, with nil or with the error of
\* any of its calls, the engine process it started in restricted mode is
\* stopped.
C19_EngineStoppedOnReturn ==
    (returned /\ info.workflow \in {"Bootstrap", "Restore"}) => engine = "stopped"

\* a bootstrap that returns the error of a query made while the engine ran
C19_Witness ==
    /\ returned
    /\ info.workflow = "Bootstrap"
    /\ Succeeded("Startup")
    /\ Failed("PostInitSQL")
    /\ wfErr = "PostInitSQL"
    /\ engine = "stopped"

\* the place of the first call of that name in the trace (0: not made)
At(call) ==
    IF Made(call) THEN CHOOSE k \in DOMAIN trace :
                           /\ trace[k].call = call
                           /\ \A j \in 1..(k - 1) : trace[j].call # call
    ELSE 0

\* C20: in a join the base backup is started only after the parent accepted a
\* connection within the bounded wait; when the wait or the base backup fails
\* the join returns an error, the base backup is not tried again and no replica
\* configuration is written; the replica configuration is written only after a
\* base backup that succeeded.
C20_JoinOrder ==
    info.workflow = "Join" =>
        /\ Made("pg_basebackup") =>
              /\ Succeeded("waitForConnectionAvailable")
              /\ At("waitForConnectionAvailable") < At("pg_basebackup")
              /\ attempts <= MaxRetries
        /\ Cardinality({k \in DOMAIN trace : trace[k].call = "pg_basebackup"}) <= 1
        /\ (Failed("waitForConnectionAvailable") \/ Failed("pg_basebackup")) =>
              /\ returned
              /\ wfErr # "nil"
              /\ ~Made("UpdateReplicaConfiguration")
        /\ Made("UpdateReplicaConfiguration") =>
              /\ Succeeded("pg_basebackup")
              /\ At("pg_basebackup") < At("UpdateReplicaConfiguration")

\* a join whose parent accepted the last attempt and whose base backup failed
C20_Witness ==
    /\ info.workflow = "Join"
    /\ returned
    /\ attempts = MaxRetries
    /\ Succeeded("waitForConnectionAvailable")
    /\ Failed("pg_basebackup")
    /\ wfErr = "pg_basebackup"

\* C21: in a restore the superuser password is set, and for major version 12
\* or later the replica configuration is written, only after a poll of
\* pg_is_in_recovery() has answered false; a poll that answers true is followed
\* by another poll, however many polls have been made: it neither ends the wait
\* nor makes the restore return.
C21_CredentialAfterRecovery ==
    /\ [](info.workflow = "Restore" =>
            /\ Made("ALTER USER") =>
                  /\ ~recovering
                  /\ Succeeded("waitUntilRecoveryFinishes")
                  /\ At("waitUntilRecoveryFinishes") < At("ALTER USER")
            /\ Made("ConfigureReplica") =>
                  /\ info.majorVersion >= 12
                  /\ Succeeded("ALTER USER")
                  /\ At("ALTER USER") < At("ConfigureReplica"))
    /\ [][(polls' = polls + 1) =>
            /\ recovering
            /\ step' = step
            /\ Calls[step] = "waitUntilRecoveryFinishes"
            /\ ~returned'
            /\ wfErr' = wfErr
            /\ trace' = trace]_vars

\* a restore of major version 12 that wrote the replica configuration after
\* as many polls as are counted had found the engine in recovery
C21_Witness ==
    /\ info.workflow = "Restore"
    /\ info.majorVersion = 12
    /\ polls = MaxPolls
    /\ Succeeded("ALTER USER")
    /\ Succeeded("ConfigureReplica")

\* the restore is inside waitUntilRecoveryFinishes
WaitingForRecovery ==
    /\ ~returned
    /\ step <= Len(Calls)
    /\ Calls[step] = "waitUntilRecoveryFinishes"

\* C35: once the engine has left recovery, waitUntilRecoveryFinishes ends, with
\* nil unless its query fails; a failing query ends the wait at once with that
\* error, after which no further query of the wait is made; the wait returns
\* nil only when the engine is not in recovery, and it goes on waiting only
\* while the engine is in recovery.
C35_RecoveryWaitTerminates ==
    /\ (WaitingForRecovery /\ ~recovering)
          ~> (Succeeded("waitUntilRecoveryFinishes") \/ Failed("waitUntilRecoveryFinishes"))
    /\ [](Failed("waitUntilRecoveryFinishes") =>
            /\ ~WaitingForRecovery
            /\ wfErr = "waitUntilRecoveryFinishes"
            /\ ~Succeeded("waitUntilRecoveryFinishes")
            /\ Cardinality({k \in DOMAIN trace :
                               trace[k].call = "waitUntilRecoveryFinishes"}) = 1)
    /\ [](Succeeded("waitUntilRecoveryFinishes") => ~recovering)
    /\ [][(WaitingForRecovery /\ WaitingForRecovery') => recovering]_vars

\* the query of the wait failed after polls that had found the engine in
\* recovery, and the restore has returned that error
C35_Witness ==
    /\ info.workflow = "Restore"
    /\ polls > 0
    /\ Failed("waitUntilRecoveryFinishes")
    /\ returned
    /\ wfErr = "waitUntilRecoveryFinishes"

(***************************************************************************)
(* Configuration refresh: the functions.                                   *)
(***************************************************************************)
\* what a refresh function returns, what it left in PGDATA and in the
\* instance, and the operation that failed in it ("none": none)
Refreshed(fs, sha, changed, err, failed) ==
    [files |-> fs, ConfigSha256 |-> sha, changed |-> changed, err |-> err,
     failed |-> failed]

\* the configuration text and its checksum, as createPostgresqlConfiguration
\* returns them; the text differs with preserveUserSettings
createPostgresqlConfiguration(c, preserveUserSettings) ==
    LET conf == <<"cluster_name", c.Parameters,
                  IF preserveUserSettings THEN "preserve" ELSE "mandatory">>
    IN [conf |-> conf, sha256 |-> <<"sha256">> \o conf]

\* GeneratePostgresqlHBA
GeneratePostgresqlHBA(c) == <<"local all all peer", c.PgHBA>>

\* InstallPgDataFileContent
InstallPgDataFileContent(fs, contents, destinationFile, failing) ==
    IF failing = "WriteStringToFile"
    THEN [files |-> fs, changed |-> FALSE, err |-> failing]
    ELSE [files |-> [fs EXCEPT ![destinationFile] = contents],
          changed |-> fs[destinationFile] # contents, err |-> "nil"]

\* RefreshConfigurationFilesFromCluster
RefreshConfigurationFilesFromCluster(fs, sha, c, preserveUserSettings, failing) ==
    IF failing = "createPostgresqlConfiguration"
    THEN Refreshed(fs, sha, FALSE, failing, failing)
    ELSE LET created == createPostgresqlConfiguration(c, preserveUserSettings)
             installed == InstallPgDataFileContent(fs, created.conf,
                              PostgresqlCustomConfigurationFile, failing)
         IN IF installed.err # "nil"
            THEN Refreshed(installed.files, sha, installed.changed,
                           "installing postgresql configuration", failing)
            ELSE Refreshed(installed.files,
                           IF created.sha256 # NoSha256 /\ installed.changed
                           THEN created.sha256 ELSE sha,
                           installed.changed, "nil", "none")

\* RefreshPGHBA: when GeneratePostgresqlHBA fails it returns false and nil
RefreshPGHBA(fs, sha, c, failing) ==
    IF failing = "GeneratePostgresqlHBA"
    THEN Refreshed(fs, sha, FALSE, "nil", failing)
    ELSE LET installed == InstallPgDataFileContent(fs, GeneratePostgresqlHBA(c),
                              PostgresqlHBARulesFile, failing)
         IN IF installed.err # "nil"
            THEN Refreshed(installed.files, sha, installed.changed,
                           "installing postgresql HBA rules", failing)
            ELSE Refreshed(installed.files, sha, installed.changed, "nil", "none")

(***************************************************************************)
(* Configuration refresh: calls and what happens between them.             *)
(***************************************************************************)
\* the caller gets r from the refresh function op
RefreshCall(op, r, sha256) ==
    /\ pgdata' = r.files
    /\ ConfigSha256' = r.ConfigSha256
    /\ lastRefresh' = [called |-> TRUE, op |-> op, failed |-> r.failed,
                       changed |-> r.changed, err |-> r.err, sha256 |-> sha256]

\* one RefreshConfigurationFilesFromCluster call
RefreshConfiguration ==
    /\ ~lastRefresh.called
    /\ \E preserveUserSettings \in BOOLEAN,
          failing \in {"none", "createPostgresqlConfiguration", "WriteStringToFile"} :
          RefreshCall("RefreshConfigurationFilesFromCluster",
              RefreshConfigurationFilesFromCluster(pgdata, ConfigSha256, cluster,
                                                   preserveUserSettings, failing),
              createPostgresqlConfiguration(cluster, preserveUserSettings).sha256)
    /\ UNCHANGED cluster
    /\ UNCHANGED besidesRefresh

\* one RefreshPGHBA call
RefreshHBA ==
    /\ ~lastRefresh.called
    /\ \E failing \in {"none", "GeneratePostgresqlHBA", "WriteStringToFile"} :
          RefreshCall("RefreshPGHBA",
                      RefreshPGHBA(pgdata, ConfigSha256, cluster, failing), NoSha256)
    /\ UNCHANGED cluster
    /\ UNCHANGED besidesRefresh

\* the caller is done with the result of the refresh
RefreshReturns ==
    /\ lastRefresh.called
    /\ lastRefresh' = NoRefresh
    /\ UNCHANGED <<cluster, pgdata, ConfigSha256>>
    /\ UNCHANGED besidesRefresh

\* the cluster object gets other parameters or other access rules
ClusterChanges ==
    /\ ~lastRefresh.called
    /\ \E parameters \in Parameters, rules \in PgHBA :
          /\ cluster' = [Parameters |-> parameters, PgHBA |-> rules]
          /\ cluster' # cluster
    /\ UNCHANGED <<pgdata, ConfigSha256, lastRefresh>>
    /\ UNCHANGED besidesRefresh

\* the instance manager restarts: a new Instance on the same PGDATA
ManagerRestarts ==
    /\ ~lastRefresh.called
    /\ ConfigSha256 # NoSha256
    /\ ConfigSha256' = NoSha256
    /\ UNCHANGED <<cluster, pgdata, lastRefresh>>
    /\ UNCHANGED besidesRefresh

InitRefresh ==
    /\ RefreshStart
    /\ RolesStart
    /\ NoWorkflow
    /\ ConfStart(12)
    /\ ProbeStart
    /\ SlotsStart
    /\ LifecycleStart
    /\ MaxStopDelay = MaxDelay
    /\ MaxSwitchoverDelay = MaxDelay

NextRefresh ==
    \/ RefreshConfiguration
    \/ RefreshHBA
    \/ RefreshReturns
    \/ ClusterChanges
    \/ ManagerRestarts

RefreshSpec == InitRefresh /\ [][NextRefresh]_vars

(***************************************************************************)
(* Configuration refresh: properties.                                      *)
(***************************************************************************)
\* C26: a refresh call in which generating the contents or installing the
\* file failed returns an error that is not nil.
C26_FailureSurfaced ==
    (lastRefresh.called /\ lastRefresh.failed # "none") => lastRefresh.err # "nil"

\* C37: after a RefreshConfigurationFilesFromCluster call that returned no
\* error and computed a checksum that is not empty, the ConfigSha256 of the
\* instance is the checksum of the configuration the call left in PGDATA,
\* whether the call rewrote the file or found it up to date.
C37_ShaOfInstalledConfiguration ==
    (/\ lastRefresh.called
     /\ lastRefresh.op = "RefreshConfigurationFilesFromCluster"
     /\ lastRefresh.err = "nil"
     /\ lastRefresh.sha256 # NoSha256)
    => /\ lastRefresh.sha256 = <<"sha256">> \o pgdata[PostgresqlCustomConfigurationFile]
       /\ ConfigSha256 = lastRefresh.sha256

(***************************************************************************)
(* Role synchronizer: synchronizeRoles.                                    *)
(***************************************************************************)
\* _, found := roleInSpecNamed[name]
FoundInSpec(roles, name) == \E k \in DOMAIN roles : roles[k].Name = name

\* roleInSpecNamed[name]: the map keeps the last role of the list with a name
InSpecNamed(roles, name) ==
    roles[CHOOSE k \in DOMAIN roles :
             /\ roles[k].Name = name
             /\ \A j \in DOMAIN roles : j > k => roles[j].Name # name]

\* areEquivalent
areEquivalent(role1, role2) == role1.Attributes = role2.Attributes

\* faulty variant: a role of the database that the spec does not name is
\* deleted as well
WantsDeleteUnmanaged(roles, role) ==
    \/ ~FoundInSpec(roles, role.Name)
    \/ InSpecNamed(roles, role.Name).Ensure = EnsureAbsent

\* case found && inSpec.Ensure == apiv1.EnsureAbsent
WantsDelete(roles, role) ==
    /\ FoundInSpec(roles, role.Name)
    /\ InSpecNamed(roles, role.Name).Ensure = EnsureAbsent

\* case found && (!areEquivalent(inSpec, role) || passwordNeedSync(...));
\* needSync holds the names for which passwordNeedSync answers true
WantsUpdate(roles, role, needSync) ==
    /\ FoundInSpec(roles, role.Name)
    /\ \/ ~areEquivalent(InSpecNamed(roles, role.Name), role)
       \/ role.Name \in needSync

\* _, found := roleInDBNamed[r.Name]; if !found && r.Ensure == apiv1.EnsurePresent
WantsCreate(listed, r) ==
    /\ \A i \in DOMAIN listed : listed[i].Name # r.Name
    /\ r.Ensure = EnsurePresent

\* the state of a pass after roleManager.List
Listed(db) ==
    [db |-> db, reconciled |-> TRUE, lists |-> 1, calls |-> 1, creates |-> <<>>,
     updates |-> <<>>, deletes |-> <<>>, err |-> "nil"]

\* the role as the database holds it once it is created or updated from r
RoleInDB(r) == [Name |-> r.Name, Attributes |-> r.Attributes]

\* the loop over rolesInDB, from the i-th role on; f is the engine call of
\* this pass that fails (0: none)
RECURSIVE UpdateOrDeleteRoles(_, _, _, _, _, _)
UpdateOrDeleteRoles(i, listed, roles, needSync, f, acc) ==
    IF i > Len(listed) THEN acc
    ELSE LET role == listed[i]
             called == [acc EXCEPT !.calls = @ + 1]
         IN IF WantsDelete(roles, role)
            THEN LET acc1 == [called EXCEPT !.deletes = Append(@, role.Name)]
                 IN IF f = acc1.calls THEN [acc1 EXCEPT !.err = "DeleteError"]
                    ELSE UpdateOrDeleteRoles(i + 1, listed, roles, needSync, f,
                            [acc1 EXCEPT !.db = {r \in @ : r.Name # role.Name}])
            ELSE IF WantsUpdate(roles, role, needSync)
            THEN LET inSpec == InSpecNamed(roles, role.Name)
                     acc1 == [called EXCEPT !.updates = Append(@, role.Name)]
                 IN IF f = acc1.calls THEN [acc1 EXCEPT !.err = "UpdateError"]
                    ELSE UpdateOrDeleteRoles(i + 1, listed, roles, needSync, f,
                            [acc1 EXCEPT !.db = {r \in @ : r.Name # role.Name}
                                                  \cup {RoleInDB(inSpec)}])
            ELSE UpdateOrDeleteRoles(i + 1, listed, roles, needSync, f, acc)

\* the loop over rolesInSpec, from the k-th role on
RECURSIVE CreateRoles(_, _, _, _, _)
CreateRoles(k, listed, roles, f, acc) ==
    IF k > Len(roles) THEN acc
    ELSE IF WantsCreate(listed, roles[k])
         THEN LET acc1 == [acc EXCEPT !.calls = @ + 1,
                                      !.creates = Append(@, roles[k].Name)]
              IN IF f = acc1.calls THEN [acc1 EXCEPT !.err = "CreateError"]
                 ELSE CreateRoles(k + 1, listed, roles, f,
                         [acc1 EXCEPT !.db = @ \cup {RoleInDB(roles[k])}])
         ELSE CreateRoles(k + 1, listed, roles, f, acc)

\* synchronizeRoles; listed is what roleManager.List returns
synchronizeRoles(db, listed, roles, needSync, f) ==
    IF f = 1 THEN [Listed(db) EXCEPT !.err = "ListError"]
    ELSE LET aligned == UpdateOrDeleteRoles(1, listed, roles, needSync, f, Listed(db))
         IN IF aligned.err # "nil" THEN aligned
            ELSE CreateRoles(1, listed, roles, f, aligned)

\* reconcile
reconcile(db, listed, roles, needSync, f, superUserDBFails) ==
    IF superUserDBFails
    THEN [Listed(db) EXCEPT !.reconciled = FALSE, !.lists = 0, !.calls = 0,
                            !.err = "GetSuperUserDB"]
    ELSE synchronizeRoles(db, listed, roles, needSync, f)

\* roleManager.List: the roles of the database; the model takes them by
\* ascending and by descending name
RoleOrders(db) ==
    LET names == <<"app", "dba">>
        present == SelectSeq(names, LAMBDA n : \E r \in db : r.Name = n)
        asc == [k \in DOMAIN present |-> CHOOSE r \in db : r.Name = present[k]]
    IN {asc, Reverse(asc)}

(***************************************************************************)
(* Role synchronizer: Start and the loop of its goroutine.                 *)
(***************************************************************************)
\* Start up to the go statement: IsPrimary fails and Start returns the error,
\* or it answers and the goroutine is started, on a primary and on a replica
RoleSynchronizerStart ==
    /\ syncPc = "new"
    /\ \E isPrimary \in BOOLEAN, failing \in BOOLEAN :
          IF failing
          THEN syncPc' = "failed" /\ UNCHANGED isPrimaryAtStart
          ELSE syncPc' = "waiting" /\ isPrimaryAtStart' = isPrimary
    /\ UNCHANGED <<config, tickerRunning, syncCtxDone, rolesInDB, lastSync>>
    /\ UNCHANGED besidesRoles

\* config := <-sr.instance.RoleSynchronizerChan(), and the ticker is created
FirstConfig ==
    /\ syncPc = "waiting"
    /\ \E c \in ManagedConfigurations : config' = c
    /\ syncPc' = "loop"
    /\ tickerRunning' = TRUE
    /\ UNCHANGED <<isPrimaryAtStart, syncCtxDone, rolesInDB, lastSync>>
    /\ UNCHANGED besidesRoles

\* the roles passwordNeedSync is called for: those of the database that the
\* spec names and does not want absent
PasswordChecked(db, roles) ==
    {r.Name : r \in {q \in db : FoundInSpec(roles, q.Name) /\ ~WantsDelete(roles, q)}}

\* the body of the loop after the select, with the configuration c
Pass(c) ==
    IF c = NilConfig \/ Len(c[1]) = 0
    THEN /\ tickerRunning' = FALSE
         /\ lastSync' = [NoSync EXCEPT !.called = TRUE]
         /\ UNCHANGED rolesInDB
    ELSE /\ \E listed \in RoleOrders(rolesInDB),
               needSync \in SUBSET PasswordChecked(rolesInDB, c[1]),
               superUserDBFails \in BOOLEAN :
            \E f \in 0..reconcile(rolesInDB, listed, c[1], needSync, 0,
                                  superUserDBFails).calls :
               LET r == reconcile(rolesInDB, listed, c[1], needSync, f,
                                  superUserDBFails)
               IN /\ rolesInDB' = r.db
                  /\ lastSync' = [called |-> TRUE, reconciled |-> r.reconciled,
                                  pre |-> rolesInDB, lists |-> r.lists,
                                  creates |-> r.creates, updates |-> r.updates,
                                  deletes |-> r.deletes, err |-> r.err,
                                  failing |-> f]
         /\ UNCHANGED tickerRunning

\* case config = <-sr.instance.RoleSynchronizerChan()
ConfigArrives ==
    /\ syncPc = "loop"
    /\ ~lastSync.called
    /\ \E c \in ManagedConfigurations : config' = c /\ Pass(c)
    /\ UNCHANGED <<syncPc, isPrimaryAtStart, syncCtxDone>>
    /\ UNCHANGED besidesRoles

\* case <-ticker.C
Tick ==
    /\ syncPc = "loop"
    /\ ~lastSync.called
    /\ tickerRunning
    /\ Pass(config)
    /\ UNCHANGED <<syncPc, isPrimaryAtStart, config, syncCtxDone>>
    /\ UNCHANGED besidesRoles

\* the loop is back at its select
PassEnds ==
    /\ lastSync.called
    /\ lastSync' = NoSync
    /\ UNCHANGED <<syncPc, isPrimaryAtStart, config, tickerRunning, syncCtxDone,
                   rolesInDB>>
    /\ UNCHANGED besidesRoles

\* the context passed to Start is cancelled
SyncContextCancelled ==
    /\ syncPc \in {"waiting", "loop"}
    /\ ~syncCtxDone
    /\ syncCtxDone' = TRUE
    /\ UNCHANGED <<syncPc, isPrimaryAtStart, config, tickerRunning, rolesInDB,
                   lastSync>>
    /\ UNCHANGED besidesRoles

\* case <-ctx.Done(): the goroutine returns and its deferred function stops
\* the ticker
LoopReturns ==
    /\ syncPc = "loop"
    /\ ~lastSync.called
    /\ syncCtxDone
    /\ syncPc' = "stopped"
    /\ tickerRunning' = FALSE
    /\ UNCHANGED <<isPrimaryAtStart, config, syncCtxDone, rolesInDB, lastSync>>
    /\ UNCHANGED besidesRoles

\* a role is created, altered or dropped in the database by someone else
RoleChangesInDB ==
    /\ ~lastSync.called
    /\ \E name \in RoleNames :
          LET others == {r \in rolesInDB : r.Name # name}
          IN /\ rolesInDB' \in {others} \cup
                   {others \cup {[Name |-> name, Attributes |-> a]} : a \in RoleAttributes}
             /\ rolesInDB' # rolesInDB
    /\ UNCHANGED <<syncPc, isPrimaryAtStart, config, tickerRunning, syncCtxDone,
                   lastSync>>
    /\ UNCHANGED besidesRoles

InitRoles ==
    /\ RolesStart
    /\ RefreshStart
    /\ NoWorkflow
    /\ ConfStart(12)
    /\ ProbeStart
    /\ SlotsStart
    /\ LifecycleStart
    /\ MaxStopDelay = MaxDelay
    /\ MaxSwitchoverDelay = MaxDelay

NextRoles ==
    \/ RoleSynchronizerStart
    \/ FirstConfig
    \/ ConfigArrives
    \/ Tick
    \/ PassEnds
    \/ SyncContextCancelled
    \/ LoopReturns
    \/ RoleChangesInDB

RoleSpec == InitRoles /\ [][NextRoles]_vars

(***************************************************************************)
(* Role synchronizer: properties.                                          *)
(***************************************************************************)
\* C38: the synchronizer of an instance that was not primary when Start was
\* called issues no List, Create, Update or Delete, whatever configuration its
\* goroutine receives afterwards.
C38_SkippedOnReplica ==
    (lastSync.called /\ ~isPrimaryAtStart)
    => /\ lastSync.lists = 0
       /\ lastSync.creates = <<>>
       /\ lastSync.updates = <<>>
       /\ lastSync.deletes = <<>>
       /\ rolesInDB = lastSync.pre

\* the names of the roles of a set
RoleNamesOf(db) == {r.Name : r \in db}

\* C39: in a pass of synchronizeRoles every Delete is for a role that was in
\* the database and that the spec lists with ensure = absent, every Update is
\* for a role that was in the database and that the spec lists, every Create
\* is for a role that was not in the database and that the spec lists with
\* ensure = present; a role of the database that the spec does not name is
\* left as it was; the engine call that fails is the last call of the pass,
\* which returns an error.
C39_OnlyManagedRolesTouched ==
    (lastSync.called /\ lastSync.reconciled)
    => LET roles == config[1]
           before == RoleNamesOf(lastSync.pre)
       IN /\ \A name \in Range(lastSync.deletes) :
                /\ name \in before
                /\ FoundInSpec(roles, name)
                /\ InSpecNamed(roles, name).Ensure = EnsureAbsent
          /\ \A name \in Range(lastSync.updates) :
                /\ name \in before
                /\ FoundInSpec(roles, name)
          /\ \A name \in Range(lastSync.creates) :
                /\ name \notin before
                /\ \E k \in DOMAIN roles :
                      roles[k].Name = name /\ roles[k].Ensure = EnsurePresent
          /\ \A r \in lastSync.pre : ~FoundInSpec(roles, r.Name) => r \in rolesInDB
          /\ lastSync.failing > 0 =>
                /\ lastSync.err \in {"ListError", "DeleteError", "UpdateError",
                                     "CreateError"}
                /\ lastSync.failing = lastSync.lists + Len(lastSync.deletes)
                      + Len(lastSync.updates) + Len(lastSync.creates)
          /\ lastSync.failing = 0 => lastSync.err = "nil"

\* a pass with no error that deleted the role the spec wants absent and left
\* alone the role of the database that the spec does not name
C39_Witness ==
    /\ lastSync.called
    /\ lastSync.reconciled
    /\ lastSync.err = "nil"
    /\ lastSync.deletes = <<"app">>
    /\ \E r \in lastSync.pre :
          /\ r.Name = "dba"
          /\ ~FoundInSpec(config[1], "dba")
          /\ r \in rolesInDB

====
